---- MODULE Spec2Model ----
(***************************************************************************)
(* Playlist update / rollover state machine of the playlist curation bot   *)
(* (app/playlist_manager.py, app/spotify_client.py).                       *)
(*                                                                         *)
(* One invocation of update_playlist or handle_rollover is a sequence of   *)
(* steps, one per call to the streaming service or to the SQLite store.    *)
(* Every such call either takes effect or raises without effect; this      *)
(* includes the audit write made by the except clause of update_playlist.  *)
(***************************************************************************)
EXTENDS Integers, Sequences, FiniteSets, TLC

VARIABLES
    config,            \* self.config['playlists'] (static configuration)
    playlist_ids,      \* self.playlist_ids: playlist_type -> id (in memory)
    db_playlist_ids,   \* table playlist_ids
    db_runs,           \* table playlist_runs, rows of one playlist_type in insertion order
    db_snapshots,      \* table playlist_snapshots, rows of one playlist_type in insertion order
    ext,               \* the streaming service: playlist id -> [name, tracks]
    next_id,           \* next playlist id the service hands out
    clock,             \* datetime.now()
    n_runs,            \* invocations started so far
    faults,            \* whether calls to the service and the store may raise
    starts,            \* process starts (constructions of PlaylistManager) so far
    client,            \* self.spotify_client: the cached access token and the request time
    sel,               \* a call of a TrackSelector function: input, arguments, result
    pc,                \* per playlist_type: position inside the running invocation
    frame,             \* per playlist_type: local variables of the invocation
    hist               \* per playlist_type: what the invocation has done so far (history)

vars == <<config, playlist_ids, db_playlist_ids, db_runs, db_snapshots, ext,
          next_id, clock, n_runs, faults, starts, client, sel, pc, frame, hist>>

-----------------------------------------------------------------------------
(* Bounds *)

MaxTrack == 2          \* track identifiers 1..MaxTrack
MaxSelected == 2       \* longest list the selection pipeline returns
MaxRuns == 2           \* invocations (updates and rollovers) in one behaviour
MaxRunsNoFault == 4    \* the same, in an environment where no call raises
MaxStarts == 3         \* process starts in one behaviour
MaxJobs == 2           \* scheduled jobs fired in one behaviour with concurrent jobs
MaxConcurrent == 2     \* jobs running at the same time
MaxLen == 3            \* longest track list handed to a TrackSelector function
MaxCap == 2            \* largest artist cap
MaxExisting == 2       \* longest existing-contents list handed to dedupe_tracks
MaxRows == 2           \* rows of one playlist_type in a snapshot table handed to the lookup
MaxDate == 2           \* snapshot_date values in such a table
MaxPrev == 1           \* longest track list of a previous_snapshot handed to calculate_track_scores
MaxTarget == 4         \* largest target_size handed to a TrackSelector function
MaxAlloc == 5          \* longest list handed to apply_genre_allocation alone
batch_size == 1        \* add_tracks_to_playlist batch (100 in the source, scaled to the track universe)
TargetSize == 1        \* config 'size' of the accumulating playlists
top_daily == 1         \* config seeding.<type>.top_daily
top_weekly == 1        \* config seeding.<type>.top_weekly
expires_in == 1         \* lifetime of an access token, in steps of the clock

-----------------------------------------------------------------------------
(* Values *)

NoId == 0
None == "None"

PlaylistTypes == {"daily", "weekly", "monthly", "yearly"}
ConfigOrder == <<"daily", "weekly", "monthly", "yearly">>

TrackIds == 1..MaxTrack

Uri(i) == <<"spotify:track", i>>
Track(i) == [id |-> i, uri |-> Uri(i)]
\* one element of the 'items' array of GET /playlists/{id}/tracks
Item(uri) == [track |-> [id |-> uri[2], uri |-> uri]]

Range(s) == {s[i] : i \in 1..Len(s)}
SeqsUpTo(S, n) == UNION {[1..k -> S] : k \in 0..n}
Injective(s) == \A i, j \in 1..Len(s) : s[i] = s[j] => i = j
SubSeqFrom(s, a) == IF a > Len(s) THEN <<>> ELSE SubSeq(s, a, Len(s))
Prefix(s, n) == IF n >= Len(s) THEN s ELSE SubSeq(s, 1, n)
MapSeq(s, F(_)) == [i \in 1..Len(s) |-> F(s[i])]
SelectBy(s, T(_)) == SelectSeq(s, T)

\* str(e), and the NULL error_message
Str(e) == <<"str", e>>
NoMessage == <<>>

\* an Optional value
NoneValue == [some |-> FALSE, value |-> <<>>]
Some(v) == [some |-> TRUE, value |-> v]

\* how an invocation ended
Returned == [kind |-> "returned", e |-> None]
Success == [kind |-> "success", e |-> None]
Raise(e) == [kind |-> "raised", e |-> e]
Running == [kind |-> "running", e |-> None]


-----------------------------------------------------------------------------
(* Configuration: config['playlists'].  A playlist_type without an entry   *)
(* maps to Missing.                                                        *)

PlaylistConfig(active, logic, rename_final) ==
    [present |-> TRUE, active |-> active, logic |-> logic, size |-> TargetSize,
     rename_final |-> rename_final]

Missing ==
    [present |-> FALSE, active |-> FALSE, logic |-> "", size |-> 0, rename_final |-> FALSE]

\* the configurations the yearly entry is drawn from: absent, inactive,
\* accumulating, and an unrecognised logic value (fallback branch)
YearlyChoices ==
    { Missing,
      PlaylistConfig(FALSE, "year_to_date", TRUE),
      PlaylistConfig(TRUE, "year_to_date", TRUE),
      PlaylistConfig(TRUE, "general", FALSE) }

ConfigWith(yearly) ==
    [pt \in PlaylistTypes |->
        CASE pt = "daily"   -> PlaylistConfig(TRUE, "previous_day", FALSE)
          [] pt = "weekly"  -> PlaylistConfig(TRUE, "previous_week", FALSE)
          [] pt = "monthly" -> PlaylistConfig(TRUE, "month_to_date", TRUE)
          [] pt = "yearly"  -> yearly]

\* the same with the entries of some playlist types marked active: false
Deactivated(cfg, inactive) ==
    [pt \in PlaylistTypes |->
        IF pt \in inactive THEN [cfg[pt] EXCEPT !.active = FALSE] ELSE cfg[pt]]

\* the configurations the program is started with: every choice of the yearly
\* entry with daily and weekly active, and daily and/or weekly switched off
ConfigChoices ==
    {ConfigWith(yearly) : yearly \in YearlyChoices}
        \cup {Deactivated(ConfigWith(PlaylistConfig(TRUE, "year_to_date", TRUE)), inactive) :
                 inactive \in {{"daily"}, {"weekly"}, {"daily", "weekly"}}}

final_suffix == "(Final)"

\* f"{prefix}{playlist_type.title()} Hits", as a sequence of name parts
PlaylistName(pt) == <<"prefix", pt, "Hits">>

\* the name handle_rollover gives the new playlist
NewPlaylistName(pt) ==
    IF pt = "yearly" THEN PlaylistName(pt) \o <<"current_year">> ELSE PlaylistName(pt)

IsActive(cfg, pt) == cfg[pt] # Missing /\ cfg[pt].active

-----------------------------------------------------------------------------
(* The streaming service (SpotifyClient calls) *)

\* mutant of replace_playlist_tracks: the URIs are appended, nothing is cleared
replace_playlist_tracks_appends(e, id, uris) == [e EXCEPT ![id].tracks = @ \o uris]

\* PUT /playlists/{id}/tracks
replace_playlist_tracks(e, id, uris) == [e EXCEPT ![id].tracks = uris]

\* one POST /playlists/{id}/tracks of add_tracks_to_playlist
add_batch(e, id, batch) == [e EXCEPT ![id].tracks = @ \o batch]

\* track_uris[i:i+batch_size], i counted from 0
Batch(uris, i) ==
    IF i + batch_size >= Len(uris) THEN SubSeqFrom(uris, i + 1)
    ELSE SubSeq(uris, i + 1, i + batch_size)

\* DELETE /playlists/{id}/tracks with {'uris': ...}: removal is by URI, so every
\* entry carrying one of the URIs goes
remove_tracks_from_playlist(e, id, uris) ==
    IF uris = <<>> THEN e
    ELSE [e EXCEPT ![id].tracks = SelectSeq(@, LAMBDA u : u \notin Range(uris))]

get_playlist_tracks(e, id) == MapSeq(e[id].tracks, Item)

\* POST /users/{user}/playlists: a new, empty playlist under a fresh id
create_playlist(e, id, name) ==
    [i \in (DOMAIN e) \cup {id} |-> IF i = id THEN [name |-> name, tracks |-> <<>>] ELSE e[i]]

\* PUT /playlists/{id} with a name
update_playlist_name(e, id, name) == [e EXCEPT ![id].name = name]

-----------------------------------------------------------------------------
(* The SQLite store *)

json_dumps(tracks) == [json |-> "array", elements |-> tracks]
json_loads(text) == text.elements

RunRecord(pt, count, success, msg, now) ==
    [playlist_type |-> pt, run_timestamp |-> now, tracks_count |-> count,
     success |-> success, error_message |-> msg]

\* mutant of _log_run: the row replaces the rows of its playlist_type
_log_run_overwrites(runs, pt, count, success, msg, now) ==
    [runs EXCEPT ![pt] = <<RunRecord(pt, count, success, msg, now)>>]

_log_run(runs, pt, count, success, msg, now) ==
    [runs EXCEPT ![pt] = Append(@, RunRecord(pt, count, success, msg, now))]

SnapshotRow(pt, timestamp, tracks) ==
    [playlist_type |-> pt, snapshot_date |-> timestamp, tracks_data |-> json_dumps(tracks)]

\* mutant of insert_snapshot: the row is filed under every playlist_type
insert_snapshot_every_type(snaps, pt, timestamp, tracks) ==
    [q \in DOMAIN snaps |-> Append(snaps[q], SnapshotRow(pt, timestamp, tracks))]

\* the INSERT of _save_snapshot
insert_snapshot(snaps, pt, timestamp, tracks) ==
    [snaps EXCEPT ![pt] = Append(@, SnapshotRow(pt, timestamp, tracks))]

\* mutant of LatestRows: ORDER BY snapshot_date ASC
LatestRows_oldest(snaps, pt) ==
    {r \in Range(snaps[pt]) : \A q \in Range(snaps[pt]) : q.snapshot_date >= r.snapshot_date}

\* ORDER BY snapshot_date DESC LIMIT 1: the rows the query may return (one of
\* those with the greatest snapshot_date)
LatestRows(snaps, pt) ==
    {r \in Range(snaps[pt]) : \A q \in Range(snaps[pt]) : q.snapshot_date <= r.snapshot_date}

\* the values _get_latest_snapshot may return
_get_latest_snapshot(snaps, pt) ==
    IF snaps[pt] = <<>> THEN {NoneValue}
    ELSE {Some(json_loads(r.tracks_data)) : r \in LatestRows(snaps, pt)}

\* mutant of _store_playlist_id: the row is not written
_store_playlist_id_lost(ids, pt, id) == ids

\* INSERT OR REPLACE INTO playlist_ids
_store_playlist_id(ids, pt, id) == [ids EXCEPT ![pt] = id]

-----------------------------------------------------------------------------
(* The selection pipeline (track_selector.select_tracks_for_playlist as    *)
(* update_playlist calls it): the lists it may return for the given        *)
(* existing contents: at most MaxSelected tracks, pairwise distinct, none  *)
(* already in the playlist.                                                *)

SelectedChoices(existing_tracks) ==
    LET existing_ids == {it.track.id : it \in Range(existing_tracks)}
    IN  {MapSeq(s, Track) :
            s \in {q \in SeqsUpTo(TrackIds \ existing_ids, MaxSelected) : Injective(q)}}

-----------------------------------------------------------------------------
(* State after PlaylistManager.__init__ on an empty database and an        *)
(* account without playlists: _load_or_create_playlists creates one        *)
(* playlist per active playlist_type, in configuration order, and stores   *)
(* its id.                                                                  *)

\* no TrackSelector function has been called
\* (n and pct hold the numeric arguments of the call, searches what the
\* searches made by the call gave)
\* a previous_snapshot argument: None, a list (what json.loads gives for a
\* stored row), or a dict with the key 'tracks'
NoSnapshot == [type |-> "NoneType", tracks |-> <<>>]
SnapshotList(tracks) == [type |-> "list", tracks |-> tracks]
SnapshotDict(tracks) == [type |-> "dict", tracks |-> tracks]

NoCall ==
    [op |-> "none", tracks |-> <<>>, existing_tracks |-> <<>>, n |-> 0, pct |-> 0,
     searches |-> <<>>, previous_snapshot |-> NoSnapshot, playlist_type |-> "general",
     out |-> <<>>, e |-> None]

ActiveBefore(cfg, k) == {j \in 1..k : IsActive(cfg, ConfigOrder[j])}

PositionOf(pt) == CHOOSE k \in 1..Len(ConfigOrder) : ConfigOrder[k] = pt

_load_or_create_playlists(cfg) ==
    [pt \in PlaylistTypes |->
        IF IsActive(cfg, pt) THEN Cardinality(ActiveBefore(cfg, PositionOf(pt))) ELSE NoId]

CreatedPlaylists(cfg) ==
    LET ids == _load_or_create_playlists(cfg)
    IN  [i \in {ids[pt] : pt \in {q \in PlaylistTypes : IsActive(cfg, q)}} |->
            [name |-> PlaylistName(CHOOSE pt \in PlaylistTypes : ids[pt] = i),
             tracks |-> <<>>]]

-----------------------------------------------------------------------------
(* SpotifyClient: the state one client object keeps between requests *)

NoToken == 0
NoWriter == "none"

\* a client just constructed; written_by and read_by are history: the running
\* invocation whose request stored the access token, and the running
\* invocations that sent a request with a token another one stored
NoClient ==
    [access_token |-> NoToken, token_expires_at |-> 0, last_request_time |-> 0,
     written_by |-> NoWriter, read_by |-> {}]

\* if not self.access_token or time.time() >= self.token_expires_at
TokenExpired(c, now) == c.access_token = NoToken \/ now >= c.token_expires_at

\* _make_request: _rate_limit sets last_request_time, _get_headers refreshes
\* the token when there is none or it has expired (a token is named by the
\* time it was issued)
_make_request(c, pt, now) ==
    IF TokenExpired(c, now)
    THEN [c EXCEPT !.access_token = now, !.token_expires_at = now + expires_in,
                   !.last_request_time = now, !.written_by = pt]
    ELSE [c EXCEPT !.last_request_time = now,
                   !.read_by = IF c.written_by \in {pt, NoWriter} THEN @ ELSE @ \cup {pt}]

\* the client after __init__ of the manager has looked up or created the playlists
ClientAfterInit == [_make_request(NoClient, NoWriter, 1) EXCEPT !.written_by = NoWriter]

InitFrame ==
    [playlist_id |-> NoId, previous_snapshot |-> NoneValue, existing_tracks |-> <<>>,
     selected_tracks |-> <<>>, track_uris |-> <<>>, i |-> 0, current_tracks |-> <<>>,
     timestamp |-> 0, e |-> None, result |-> Running,
     current_name |-> <<>>, new_playlist_id |-> NoId, seed_tracks |-> <<>>]

\* history of one invocation: the calls made (name, whether it returned), and
\* the state the invocation started from
InitHist ==
    [kind |-> "none", calls |-> <<>>, tracks_before |-> <<>>, runs_before |-> <<>>,
     snapshots_before |-> <<>>, old_playlist_id |-> NoId, config_before |-> ConfigWith(Missing),
     removed |-> 0, selected |-> NoneValue]

\* the state after construction, at time `now`
InitAt(may_raise, now) ==
    /\ config \in ConfigChoices
    /\ playlist_ids = _load_or_create_playlists(config)
    /\ db_playlist_ids = playlist_ids
    /\ db_runs = [pt \in PlaylistTypes |-> <<>>]
    /\ db_snapshots = [pt \in PlaylistTypes |-> <<>>]
    /\ ext = CreatedPlaylists(config)
    /\ next_id = Cardinality(DOMAIN ext) + 1
    /\ clock = now
    /\ n_runs = 0
    /\ faults = may_raise
    /\ starts = 1
    /\ client = ClientAfterInit
    /\ sel = NoCall
    /\ pc = [pt \in PlaylistTypes |-> "idle"]
    /\ frame = [pt \in PlaylistTypes |-> InitFrame]
    /\ hist = [pt \in PlaylistTypes |-> InitHist]

InitWith(may_raise) == InitAt(may_raise, 1)

RunBudget == IF faults THEN MaxRuns ELSE MaxRunsNoFault

\* no invocation is running; update_playlist and handle_rollover below start
\* in such a state (jobs that run at the same time: see Job_update_playlist)
AllIdle == \A pt \in PlaylistTypes : pc[pt] = "idle"

Goto(pt, where) == pc' = [pc EXCEPT ![pt] = where]

\* a request of invocation pt to the streaming service, made or failed
Request(pt) == client' = _make_request(client, pt, clock)

\* invocation pt is over
Over(pt) ==
    client' = [client EXCEPT !.written_by = IF @ = pt THEN NoWriter ELSE @,
                             !.read_by = @ \ {pt}]
Called(pt, op, ok) == hist' = [hist EXCEPT ![pt].calls = Append(@, <<op, ok>>)]

-----------------------------------------------------------------------------
(* update_playlist(playlist_type) *)

\* entry, configuration lookup and playlist id lookup
U_enter(pt) ==
    /\ n_runs' = n_runs + 1
    /\ hist' = [hist EXCEPT ![pt] =
                  [InitHist EXCEPT
                      !.kind = "update",
                      !.tracks_before = IF playlist_ids[pt] = NoId THEN <<>>
                                        ELSE ext[playlist_ids[pt]].tracks,
                      !.runs_before = db_runs[pt],
                      !.snapshots_before = db_snapshots[pt],
                      !.config_before = config]]
    /\ IF config[pt] = Missing
       THEN \* self.config['playlists'][playlist_type] raises KeyError
            /\ frame' = [frame EXCEPT ![pt] = [InitFrame EXCEPT !.e = "KeyError"]]
            /\ Goto(pt, "u_except")
       ELSE IF playlist_ids[pt] = NoId
       THEN /\ frame' = [frame EXCEPT ![pt] = [InitFrame EXCEPT !.result = Returned]]
            /\ Goto(pt, "u_done")
       ELSE /\ frame' = [frame EXCEPT ![pt] = [InitFrame EXCEPT !.playlist_id = playlist_ids[pt]]]
            /\ Goto(pt, "u_previous_snapshot")
    /\ UNCHANGED <<client, sel, starts, faults, config, playlist_ids, db_playlist_ids, db_runs, db_snapshots, ext,
                   next_id, clock>>

\* update_playlist(playlist_type), called while nothing else runs
update_playlist(pt) ==
    /\ AllIdle
    /\ n_runs < RunBudget
    /\ U_enter(pt)

\* previous_snapshot = self._get_latest_snapshot(playlist_type)
U_previous_snapshot(pt) ==
    /\ pc[pt] = "u_previous_snapshot"
    /\ \/ \E snap \in _get_latest_snapshot(db_snapshots, pt) :
            /\ frame' = [frame EXCEPT ![pt].previous_snapshot = snap]
            /\ Called(pt, "_get_latest_snapshot", TRUE)
            /\ Goto(pt, "u_existing_tracks")
       \/ /\ faults
          /\ frame' = [frame EXCEPT ![pt].e = "StoreError"]
          /\ Called(pt, "_get_latest_snapshot", FALSE)
          /\ Goto(pt, "u_except")
    /\ UNCHANGED <<client, sel, starts, faults, config, playlist_ids, db_playlist_ids, db_runs, db_snapshots, ext,
                   next_id, clock, n_runs>>

\* existing_tracks = self.spotify_client.get_playlist_tracks(playlist_id)
U_existing_tracks(pt) ==
    /\ pc[pt] = "u_existing_tracks"
    /\ \/ /\ frame' = [frame EXCEPT ![pt].existing_tracks =
                                        get_playlist_tracks(ext, frame[pt].playlist_id)]
          /\ Called(pt, "get_playlist_tracks", TRUE)
          /\ Goto(pt, "u_select")
       \/ /\ faults
          /\ frame' = [frame EXCEPT ![pt].e = "ServiceError"]
          /\ Called(pt, "get_playlist_tracks", FALSE)
          /\ Goto(pt, "u_except")
    /\ Request(pt)
    /\ UNCHANGED <<sel, starts, faults, config, playlist_ids, db_playlist_ids, db_runs, db_snapshots, ext,
                   next_id, clock, n_runs>>

IsReplace(logic_type) == logic_type \in {"previous_day", "previous_week"}
IsAccumulate(logic_type) == logic_type \in {"month_to_date", "year_to_date"}

\* mutant of U_select: no test of the empty selection
U_select_without_empty_test(pt) ==
    /\ pc[pt] = "u_select"
    /\ \/ \E selected \in SelectedChoices(frame[pt].existing_tracks) :
            /\ hist' = [hist EXCEPT
                          ![pt].calls = Append(@, <<"select_tracks_for_playlist", TRUE>>),
                          ![pt].selected = Some(selected)]
            /\ frame' = [frame EXCEPT
                           ![pt].selected_tracks = selected,
                           ![pt].track_uris = MapSeq(selected, LAMBDA t : t.uri),
                           ![pt].i = 0]
            /\ Goto(pt, IF IsReplace(config[pt].logic) THEN "u_clear" ELSE "u_add")
       \/ /\ faults
          /\ frame' = [frame EXCEPT ![pt].e = "SelectorError"]
          /\ Called(pt, "select_tracks_for_playlist", FALSE)
          /\ Goto(pt, "u_except")
    /\ Request(pt)
    /\ UNCHANGED <<sel, starts, faults, config, playlist_ids, db_playlist_ids, db_runs, db_snapshots, ext,
                   next_id, clock, n_runs>>

\* selected_tracks = select_tracks_for_playlist(...); the empty-selection return;
\* the branch on logic_type and track_uris = [track['uri'] ...]
U_select(pt) ==
    /\ pc[pt] = "u_select"
    /\ \/ \E selected \in SelectedChoices(frame[pt].existing_tracks) :
            /\ hist' = [hist EXCEPT
                          ![pt].calls = Append(@, <<"select_tracks_for_playlist", TRUE>>),
                          ![pt].selected = Some(selected)]
            /\ IF selected = <<>>
               THEN /\ frame' = [frame EXCEPT ![pt].result = Returned]
                    /\ Goto(pt, "u_done")
               ELSE /\ frame' = [frame EXCEPT
                                   ![pt].selected_tracks = selected,
                                   ![pt].track_uris = MapSeq(selected, LAMBDA t : t.uri),
                                   ![pt].i = 0]
                    /\ Goto(pt, IF IsReplace(config[pt].logic) THEN "u_clear" ELSE "u_add")
       \/ /\ faults
          /\ frame' = [frame EXCEPT ![pt].e = "SelectorError"]
          /\ Called(pt, "select_tracks_for_playlist", FALSE)
          /\ Goto(pt, "u_except")
    /\ Request(pt)
    /\ UNCHANGED <<sel, starts, faults, config, playlist_ids, db_playlist_ids, db_runs, db_snapshots, ext,
                   next_id, clock, n_runs>>

\* replace logic: self.spotify_client.replace_playlist_tracks(playlist_id, [])
U_clear(pt) ==
    /\ pc[pt] = "u_clear"
    /\ \/ /\ ext' = replace_playlist_tracks(ext, frame[pt].playlist_id, <<>>)
          /\ Called(pt, "replace_playlist_tracks", TRUE)
          /\ Goto(pt, "u_add")
          /\ frame' = frame
       \/ /\ faults
          /\ frame' = [frame EXCEPT ![pt].e = "ServiceError"]
          /\ Called(pt, "replace_playlist_tracks", FALSE)
          /\ Goto(pt, "u_except")
          /\ ext' = ext
    /\ Request(pt)
    /\ UNCHANGED <<sel, starts, faults, config, playlist_ids, db_playlist_ids, db_runs, db_snapshots,
                   next_id, clock, n_runs>>

\* one iteration of the batch loop of add_tracks_to_playlist(playlist_id, track_uris)
U_add(pt) ==
    /\ pc[pt] = "u_add"
    /\ \/ /\ ext' = add_batch(ext, frame[pt].playlist_id,
                              Batch(frame[pt].track_uris, frame[pt].i))
          /\ frame' = [frame EXCEPT ![pt].i = @ + batch_size]
          /\ Called(pt, "add_tracks_to_playlist", TRUE)
          /\ Goto(pt, IF frame[pt].i + batch_size < Len(frame[pt].track_uris) THEN "u_add"
                      ELSE IF IsAccumulate(config[pt].logic) THEN "u_current_tracks"
                      ELSE "u_save_snapshot")
       \/ /\ faults
          /\ frame' = [frame EXCEPT ![pt].e = "ServiceError"]
          /\ Called(pt, "add_tracks_to_playlist", FALSE)
          /\ Goto(pt, "u_except")
          /\ ext' = ext
    /\ Request(pt)
    /\ UNCHANGED <<sel, starts, faults, config, playlist_ids, db_playlist_ids, db_runs, db_snapshots,
                   next_id, clock, n_runs>>

\* accumulate logic: current_tracks = get_playlist_tracks(playlist_id) and the
\* size test
U_current_tracks(pt) ==
    /\ pc[pt] = "u_current_tracks"
    /\ \/ LET current_tracks == get_playlist_tracks(ext, frame[pt].playlist_id)
          IN  /\ frame' = [frame EXCEPT ![pt].current_tracks = current_tracks]
              /\ Called(pt, "get_playlist_tracks", TRUE)
              /\ Goto(pt, IF Len(current_tracks) > config[pt].size THEN "u_trim"
                          ELSE "u_save_snapshot")
       \/ /\ faults
          /\ frame' = [frame EXCEPT ![pt].e = "ServiceError"]
          /\ Called(pt, "get_playlist_tracks", FALSE)
          /\ Goto(pt, "u_except")
    /\ Request(pt)
    /\ UNCHANGED <<sel, starts, faults, config, playlist_ids, db_playlist_ids, db_runs, db_snapshots, ext,
                   next_id, clock, n_runs>>

\* tracks_to_remove = current_tracks[max_size:] and remove_tracks_from_playlist
U_trim(pt) ==
    /\ pc[pt] = "u_trim"
    /\ \/ LET tracks_to_remove == SubSeqFrom(frame[pt].current_tracks, config[pt].size + 1)
              track_uris_to_remove == MapSeq(tracks_to_remove, LAMBDA t : t.track.uri)
          IN  /\ ext' = remove_tracks_from_playlist(ext, frame[pt].playlist_id,
                                                    track_uris_to_remove)
              /\ hist' = [hist EXCEPT
                            ![pt].calls = Append(@, <<"remove_tracks_from_playlist", TRUE>>),
                            ![pt].removed = Len(ext[frame[pt].playlist_id].tracks)
                                            - Len(ext'[frame[pt].playlist_id].tracks)]
              /\ Goto(pt, "u_save_snapshot")
              /\ frame' = frame
       \/ /\ faults
          /\ frame' = [frame EXCEPT ![pt].e = "ServiceError"]
          /\ Called(pt, "remove_tracks_from_playlist", FALSE)
          /\ Goto(pt, "u_except")
          /\ ext' = ext
    /\ Request(pt)
    /\ UNCHANGED <<sel, starts, faults, config, playlist_ids, db_playlist_ids, db_runs, db_snapshots,
                   next_id, clock, n_runs>>

\* mutant of U_save_snapshot: no row is inserted
U_save_snapshot_skipped(pt) ==
    /\ pc[pt] = "u_save_snapshot"
    /\ frame' = [frame EXCEPT ![pt].timestamp = clock]
    /\ Called(pt, "_save_snapshot", TRUE)
    /\ Goto(pt, "u_snapshot_files")
    /\ UNCHANGED <<client, sel, starts, faults, config, playlist_ids, db_playlist_ids, db_runs,
                   db_snapshots, ext, next_id, clock, n_runs>>

\* _save_snapshot, first half: timestamp = datetime.now().isoformat() and the
\* committed INSERT INTO playlist_snapshots; the commit takes time
U_save_snapshot(pt) ==
    /\ pc[pt] = "u_save_snapshot"
    /\ \/ /\ db_snapshots' = insert_snapshot(db_snapshots, pt, clock, frame[pt].selected_tracks)
          /\ frame' = [frame EXCEPT ![pt].timestamp = clock]
          /\ clock' = clock + 1
          /\ Called(pt, "_save_snapshot", TRUE)
          /\ Goto(pt, "u_snapshot_files")
       \/ /\ faults
          /\ frame' = [frame EXCEPT ![pt].e = "StoreError"]
          /\ Called(pt, "_save_snapshot", FALSE)
          /\ Goto(pt, "u_except")
          /\ UNCHANGED <<db_snapshots, clock>>
    /\ UNCHANGED <<client, sel, starts, faults, config, playlist_ids, db_playlist_ids, db_runs, ext, next_id, n_runs>>

\* _save_snapshot, second half: the JSON and CSV files under snapshot_dir
U_snapshot_files(pt) ==
    /\ pc[pt] = "u_snapshot_files"
    /\ \/ /\ Called(pt, "snapshot_files", TRUE)
          /\ Goto(pt, "u_log_success")
          /\ frame' = frame
       \/ /\ faults
          /\ frame' = [frame EXCEPT ![pt].e = "IOError"]
          /\ Called(pt, "snapshot_files", FALSE)
          /\ Goto(pt, "u_except")
    /\ UNCHANGED <<client, sel, starts, faults, config, playlist_ids, db_playlist_ids, db_runs, db_snapshots, ext,
                   next_id, clock, n_runs>>

\* self._log_run(playlist_type, len(selected_tracks), True) and the normal return
U_log_success(pt) ==
    /\ pc[pt] = "u_log_success"
    /\ \/ /\ db_runs' = _log_run(db_runs, pt, Len(frame[pt].selected_tracks), TRUE, NoMessage, clock)
          /\ frame' = [frame EXCEPT ![pt].result = Success]
          /\ Called(pt, "_log_run(success)", TRUE)
          /\ Goto(pt, "u_done")
       \/ /\ faults
          /\ frame' = [frame EXCEPT ![pt].e = "StoreError"]
          /\ Called(pt, "_log_run(success)", FALSE)
          /\ Goto(pt, "u_except")
          /\ db_runs' = db_runs
    /\ UNCHANGED <<client, sel, starts, faults, config, playlist_ids, db_playlist_ids, db_snapshots, ext,
                   next_id, clock, n_runs>>

\* except Exception as e: self._log_run(playlist_type, 0, False, str(e)); raise
\* When _log_run itself raises inside the handler, its exception is the one
\* that leaves update_playlist and the bare raise is never reached.
U_except(pt) ==
    /\ pc[pt] = "u_except"
    /\ \/ /\ db_runs' = _log_run(db_runs, pt, 0, FALSE, Str(frame[pt].e), clock)
          /\ frame' = [frame EXCEPT ![pt].result = Raise(frame[pt].e)]
          /\ Called(pt, "_log_run(failure)", TRUE)
       \/ /\ faults
          /\ db_runs' = db_runs
          /\ frame' = [frame EXCEPT ![pt].result = Raise("HandlerStoreError")]
          /\ Called(pt, "_log_run(failure)", FALSE)
    /\ Goto(pt, "u_done")
    /\ UNCHANGED <<client, sel, starts, faults, config, playlist_ids, db_playlist_ids, db_snapshots, ext,
                   next_id, clock, n_runs>>

-----------------------------------------------------------------------------
(* handle_rollover(playlist_type) *)

\* mutant of Raised: the except clause logs the exception and does not raise it again
Raised_swallowed(pt, e, op) ==
    /\ faults
    /\ frame' = [frame EXCEPT ![pt].e = e, ![pt].result = Returned]
    /\ Called(pt, op, FALSE)
    /\ Goto(pt, "r_done")

\* a call of handle_rollover raises: except Exception as e: logger.error(...); raise
Raised(pt, e, op) ==
    /\ faults
    /\ frame' = [frame EXCEPT ![pt].e = e, ![pt].result = Raise(e)]
    /\ Called(pt, op, FALSE)
    /\ Goto(pt, "r_done")

\* entry, configuration lookup and playlist id lookup
R_enter(pt) ==
    /\ n_runs' = n_runs + 1
    /\ hist' = [hist EXCEPT ![pt] =
                  [InitHist EXCEPT
                      !.kind = "rollover",
                      !.tracks_before = IF playlist_ids[pt] = NoId THEN <<>>
                                        ELSE ext[playlist_ids[pt]].tracks,
                      !.runs_before = db_runs[pt],
                      !.snapshots_before = db_snapshots[pt],
                      !.old_playlist_id = playlist_ids[pt],
                      !.config_before = config]]
    /\ IF config[pt] = Missing
       THEN /\ frame' = [frame EXCEPT ![pt] =
                            [InitFrame EXCEPT !.e = "KeyError", !.result = Raise("KeyError")]]
            /\ Goto(pt, "r_done")
       ELSE IF playlist_ids[pt] = NoId
       THEN /\ frame' = [frame EXCEPT ![pt] = [InitFrame EXCEPT !.result = Returned]]
            /\ Goto(pt, "r_done")
       ELSE /\ frame' = [frame EXCEPT ![pt] = [InitFrame EXCEPT !.playlist_id = playlist_ids[pt]]]
            /\ Goto(pt, "r_current_playlist")
    /\ UNCHANGED <<client, sel, starts, faults, config, playlist_ids, db_playlist_ids, db_runs, db_snapshots, ext,
                   next_id, clock>>

\* handle_rollover(playlist_type), called while nothing else runs
handle_rollover(pt) ==
    /\ AllIdle
    /\ n_runs < RunBudget
    /\ R_enter(pt)

\* current_playlist = get_playlist(playlist_id); current_name; the rename_final test
R_current_playlist(pt) ==
    /\ pc[pt] = "r_current_playlist"
    /\ \/ /\ frame' = [frame EXCEPT ![pt].current_name = ext[frame[pt].playlist_id].name]
          /\ Called(pt, "get_playlist", TRUE)
          /\ Goto(pt, IF config[pt].rename_final THEN "r_rename" ELSE "r_create")
       \/ Raised(pt, "ServiceError", "get_playlist")
    /\ Request(pt)
    /\ UNCHANGED <<sel, starts, faults, config, playlist_ids, db_playlist_ids, db_runs, db_snapshots, ext,
                   next_id, clock, n_runs>>

\* final_name = current_name + final_suffix; update_playlist(playlist_id, name=final_name)
R_rename(pt) ==
    /\ pc[pt] = "r_rename"
    /\ \/ /\ ext' = update_playlist_name(ext, frame[pt].playlist_id,
                                         Append(frame[pt].current_name, final_suffix))
          /\ Called(pt, "update_playlist", TRUE)
          /\ Goto(pt, "r_create")
          /\ frame' = frame
       \/ /\ Raised(pt, "ServiceError", "update_playlist")
          /\ ext' = ext
    /\ Request(pt)
    /\ UNCHANGED <<sel, starts, faults, config, playlist_ids, db_playlist_ids, db_runs, db_snapshots,
                   next_id, clock, n_runs>>

\* new_playlist_id = create_playlist(name=new_playlist_name, ...)
R_create(pt) ==
    /\ pc[pt] = "r_create"
    /\ \/ /\ ext' = create_playlist(ext, next_id, NewPlaylistName(pt))
          /\ next_id' = next_id + 1
          /\ frame' = [frame EXCEPT ![pt].new_playlist_id = next_id]
          /\ Called(pt, "create_playlist", TRUE)
          /\ Goto(pt, "r_store")
       \/ /\ Raised(pt, "ServiceError", "create_playlist")
          /\ UNCHANGED <<ext, next_id>>
    /\ Request(pt)
    /\ UNCHANGED <<sel, starts, faults, config, playlist_ids, db_playlist_ids, db_runs, db_snapshots,
                   clock, n_runs>>

\* self.playlist_ids[playlist_type] = id; self._store_playlist_id(playlist_type, id);
\* _seed_new_playlist seeds the monthly and the yearly playlist only
R_store(pt) ==
    /\ pc[pt] = "r_store"
    /\ playlist_ids' = [playlist_ids EXCEPT ![pt] = frame[pt].new_playlist_id]
    /\ \/ /\ db_playlist_ids' = _store_playlist_id(db_playlist_ids, pt, frame[pt].new_playlist_id)
          /\ Called(pt, "_store_playlist_id", TRUE)
          /\ IF pt \in {"monthly", "yearly"}
             THEN /\ Goto(pt, "r_seed_daily")
                  /\ frame' = frame
             ELSE /\ Goto(pt, "r_done")
                  /\ frame' = [frame EXCEPT ![pt].result = Success]
       \/ /\ Raised(pt, "StoreError", "_store_playlist_id")
          /\ db_playlist_ids' = db_playlist_ids
    /\ UNCHANGED <<client, sel, starts, faults, config, db_runs, db_snapshots, ext, next_id, clock, n_runs>>

\* mutant of R_seed_daily: the daily tracks are taken whole, not daily_tracks[:top_daily]
R_seed_daily_whole(pt) ==
    /\ pc[pt] = "r_seed_daily"
    /\ IF playlist_ids["daily"] = NoId
       THEN /\ Goto(pt, "r_seed_weekly")
            /\ UNCHANGED <<frame, hist>>
       ELSE \/ /\ frame' = [frame EXCEPT ![pt].seed_tracks =
                     @ \o get_playlist_tracks(ext, playlist_ids["daily"])]
               /\ Called(pt, "get_playlist_tracks", TRUE)
               /\ Goto(pt, "r_seed_weekly")
            \/ Raised(pt, "ServiceError", "get_playlist_tracks")
    /\ client' = IF playlist_ids["daily"] = NoId THEN client
                 ELSE _make_request(client, pt, clock)
    /\ UNCHANGED <<sel, starts, faults, config, playlist_ids, db_playlist_ids, db_runs, db_snapshots, ext,
                   next_id, clock, n_runs>>

\* daily_id = self.playlist_ids.get('daily'); seed_tracks.extend(daily_tracks[:top_daily])
R_seed_daily(pt) ==
    /\ pc[pt] = "r_seed_daily"
    /\ IF playlist_ids["daily"] = NoId
       THEN /\ Goto(pt, "r_seed_weekly")
            /\ UNCHANGED <<frame, hist>>
       ELSE \/ /\ frame' = [frame EXCEPT ![pt].seed_tracks =
                     @ \o Prefix(get_playlist_tracks(ext, playlist_ids["daily"]), top_daily)]
               /\ Called(pt, "get_playlist_tracks", TRUE)
               /\ Goto(pt, "r_seed_weekly")
            \/ Raised(pt, "ServiceError", "get_playlist_tracks")
    /\ client' = IF playlist_ids["daily"] = NoId THEN client
                 ELSE _make_request(client, pt, clock)
    /\ UNCHANGED <<sel, starts, faults, config, playlist_ids, db_playlist_ids, db_runs, db_snapshots, ext,
                   next_id, clock, n_runs>>

\* weekly_id = self.playlist_ids.get('weekly'); seed_tracks.extend(weekly_tracks[:top_weekly]);
\* the test of seed_tracks
R_seed_weekly(pt) ==
    /\ pc[pt] = "r_seed_weekly"
    /\ IF playlist_ids["weekly"] = NoId
       THEN /\ IF frame[pt].seed_tracks = <<>>
               THEN /\ Goto(pt, "r_done")
                    /\ frame' = [frame EXCEPT ![pt].result = Success]
               ELSE /\ Goto(pt, "r_seed_replace")
                    /\ frame' = frame
            /\ hist' = hist
       ELSE \/ LET seed_tracks == frame[pt].seed_tracks \o
                     Prefix(get_playlist_tracks(ext, playlist_ids["weekly"]), top_weekly)
               IN  /\ Called(pt, "get_playlist_tracks", TRUE)
                   /\ IF seed_tracks = <<>>
                      THEN /\ Goto(pt, "r_done")
                           /\ frame' = [frame EXCEPT ![pt].result = Success]
                      ELSE /\ Goto(pt, "r_seed_replace")
                           /\ frame' = [frame EXCEPT ![pt].seed_tracks = seed_tracks]
            \/ Raised(pt, "ServiceError", "get_playlist_tracks")
    /\ client' = IF playlist_ids["weekly"] = NoId THEN client
                 ELSE _make_request(client, pt, clock)
    /\ UNCHANGED <<sel, starts, faults, config, playlist_ids, db_playlist_ids, db_runs, db_snapshots, ext,
                   next_id, clock, n_runs>>

\* replace_playlist_tracks(playlist_id, [track['track']['uri'] for track in seed_tracks])
R_seed_replace(pt) ==
    /\ pc[pt] = "r_seed_replace"
    /\ \/ /\ ext' = replace_playlist_tracks(ext, frame[pt].new_playlist_id,
                        MapSeq(frame[pt].seed_tracks, LAMBDA t : t.track.uri))
          /\ frame' = [frame EXCEPT ![pt].result = Success]
          /\ Called(pt, "replace_playlist_tracks", TRUE)
          /\ Goto(pt, "r_done")
       \/ /\ Raised(pt, "ServiceError", "replace_playlist_tracks")
          /\ ext' = ext
    /\ Request(pt)
    /\ UNCHANGED <<sel, starts, faults, config, playlist_ids, db_playlist_ids, db_runs, db_snapshots,
                   next_id, clock, n_runs>>

-----------------------------------------------------------------------------

\* the invocation returns (or its exception leaves it): its locals are gone
Return(pt) ==
    /\ pc[pt] \in {"u_done", "r_done"}
    /\ Goto(pt, "idle")
    /\ frame' = [frame EXCEPT ![pt] = InitFrame]
    /\ hist' = [hist EXCEPT ![pt] = InitHist]
    /\ Over(pt)
    /\ UNCHANGED <<sel, starts, faults, config, playlist_ids, db_playlist_ids, db_runs, db_snapshots, ext,
                   next_id, clock, n_runs>>

Next ==
    \E pt \in PlaylistTypes :
        \/ update_playlist(pt)
        \/ U_previous_snapshot(pt)
        \/ U_existing_tracks(pt)
        \/ U_select(pt)
        \/ U_clear(pt)
        \/ U_add(pt)
        \/ U_current_tracks(pt)
        \/ U_trim(pt)
        \/ U_save_snapshot(pt)
        \/ U_snapshot_files(pt)
        \/ U_log_success(pt)
        \/ U_except(pt)
        \/ handle_rollover(pt)
        \/ R_current_playlist(pt)
        \/ R_rename(pt)
        \/ R_create(pt)
        \/ R_store(pt)
        \/ R_seed_daily(pt)
        \/ R_seed_weekly(pt)
        \/ R_seed_replace(pt)
        \/ Return(pt)

Init == InitWith(TRUE)

Spec == Init /\ [][Next]_vars

\* the same program where no call to the service or the store raises
InitNoFault == InitWith(FALSE)

SpecNoFault == InitNoFault /\ [][Next]_vars

-----------------------------------------------------------------------------
(* Concurrent jobs: start_scheduler adds one job per active playlist_type   *)
(* to a BackgroundScheduler, whose worker threads run update_playlist of    *)
(* different playlist_types at the same time.                               *)

RunningJobs == {pt \in PlaylistTypes : pc[pt] # "idle"}

\* the job update_<playlist_type> fires; jobs of other playlist_types may be running
Job_update_playlist(pt) ==
    /\ IsActive(config, pt)
    /\ pc[pt] = "idle"
    /\ Cardinality(RunningJobs) < MaxConcurrent
    /\ n_runs < MaxJobs
    /\ U_enter(pt)

NextConcurrent ==
    \E pt \in PlaylistTypes :
        \/ Job_update_playlist(pt)
        \/ U_previous_snapshot(pt)
        \/ U_existing_tracks(pt)
        \/ U_select(pt)
        \/ U_clear(pt)
        \/ U_add(pt)
        \/ U_current_tracks(pt)
        \/ U_trim(pt)
        \/ U_save_snapshot(pt)
        \/ U_snapshot_files(pt)
        \/ U_log_success(pt)
        \/ U_except(pt)
        \/ Return(pt)

\* the jobs fire when the access token of the start has expired
InitConcurrent == InitAt(TRUE, 1 + expires_in)

SpecConcurrent == InitConcurrent /\ [][NextConcurrent]_vars

-----------------------------------------------------------------------------
(* A rollover of the monthly or yearly playlist while a job updates the     *)
(* daily or weekly playlist: handle_rollover is called from another thread  *)
(* than the scheduler's, and _seed_new_playlist reads the daily and weekly  *)
(* playlists the jobs write.                                                *)

ReplacedTypes == {"daily", "weekly"}
SeededTypes == {"monthly", "yearly"}

\* handle_rollover(playlist_type) is called; a job may be running
Job_handle_rollover(pt) ==
    /\ pc[pt] = "idle"
    /\ Cardinality(RunningJobs) < MaxConcurrent
    /\ n_runs < MaxJobs
    /\ R_enter(pt)

NextSeeding ==
    \/ \E pt \in ReplacedTypes :
          \/ Job_update_playlist(pt)
          \/ U_previous_snapshot(pt)
          \/ U_existing_tracks(pt)
          \/ U_select(pt)
          \/ U_clear(pt)
          \/ U_add(pt)
          \/ U_save_snapshot(pt)
          \/ U_snapshot_files(pt)
          \/ U_log_success(pt)
          \/ U_except(pt)
    \/ \E pt \in SeededTypes :
          \/ Job_handle_rollover(pt)
          \/ R_current_playlist(pt)
          \/ R_rename(pt)
          \/ R_create(pt)
          \/ R_store(pt)
          \/ R_seed_daily(pt)
          \/ R_seed_weekly(pt)
          \/ R_seed_replace(pt)
    \/ \E pt \in PlaylistTypes : Return(pt)

InitSeeding == InitAt(TRUE, 1 + expires_in)

SpecSeeding == InitSeeding /\ [][NextSeeding]_vars

-----------------------------------------------------------------------------
(* Process starts: PlaylistManager.__init__ runs _load_or_create_playlists, *)
(* one playlist type after the other in configuration order.  While the    *)
(* process is down every position is "down"; a start that raises leaves    *)
(* the process down, with what it created and stored so far in place.      *)

NoPlaylistIds == [pt \in PlaylistTypes |-> NoId]

\* SELECT playlist_id FROM playlist_ids WHERE playlist_type = ?
\* mutant of _get_stored_playlist_id: the stored id is never found
_get_stored_playlist_id_none(ids, pt) == NoId

_get_stored_playlist_id(ids, pt) == ids[pt]

\* the playlists get_playlist_by_name can return for a name
get_playlist_by_name(e, name) == {i \in DOMAIN e : e[i].name = name}

\* the loop moves on to the next playlist type
Loaded(pt) ==
    pc' = [q \in PlaylistTypes |->
              IF q = pt THEN "l_loaded"
              ELSE IF PositionOf(q) = PositionOf(pt) + 1 THEN "l_stored_id"
              ELSE pc[q]]

\* an exception leaves __init__: there is no PlaylistManager
StartFailed ==
    /\ faults
    /\ pc' = [q \in PlaylistTypes |-> "down"]
    /\ playlist_ids' = NoPlaylistIds
    /\ frame' = [q \in PlaylistTypes |-> InitFrame]
    /\ hist' = [q \in PlaylistTypes |-> InitHist]

\* the process is started: __init__ enters _load_or_create_playlists
Start ==
    /\ \A pt \in PlaylistTypes : pc[pt] = "down"
    /\ starts < MaxStarts
    /\ starts' = starts + 1
    /\ pc' = [q \in PlaylistTypes |-> IF PositionOf(q) = 1 THEN "l_stored_id" ELSE "l_wait"]
    /\ client' = NoClient
    /\ UNCHANGED <<sel, faults, config, playlist_ids, db_playlist_ids, db_runs, db_snapshots, ext,
                   next_id, clock, n_runs, frame, hist>>

\* the active test; stored_id = self._get_stored_playlist_id(playlist_type); if stored_id: ...
L_stored_id(pt) ==
    /\ pc[pt] = "l_stored_id"
    /\ IF ~IsActive(config, pt)
       THEN /\ Loaded(pt)
            /\ hist' = [hist EXCEPT ![pt] = [InitHist EXCEPT !.kind = "start"]]
            /\ UNCHANGED <<playlist_ids, frame>>
       ELSE \/ LET stored_id == _get_stored_playlist_id(db_playlist_ids, pt)
               IN  /\ hist' = [hist EXCEPT ![pt] =
                                  [InitHist EXCEPT !.kind = "start",
                                                   !.old_playlist_id = db_playlist_ids[pt],
                                                   !.calls = << <<"_get_stored_playlist_id", TRUE>> >>]]
                   /\ frame' = frame
                   /\ IF stored_id # NoId
                      THEN /\ playlist_ids' = [playlist_ids EXCEPT ![pt] = stored_id]
                           /\ Loaded(pt)
                      ELSE /\ playlist_ids' = playlist_ids
                           /\ Goto(pt, "l_create")
            \/ StartFailed
    /\ UNCHANGED <<client, sel, starts, faults, config, db_playlist_ids, db_runs, db_snapshots, ext,
                   next_id, clock, n_runs>>

\* playlist_id = create_playlist_if_not_exists(name=playlist_name, ...);
\* playlist_ids[playlist_type] = playlist_id
L_create(pt) ==
    /\ pc[pt] = "l_create"
    /\ LET existing == get_playlist_by_name(ext, PlaylistName(pt))
       IN  \/ /\ existing # {}
              /\ \E id \in existing :
                    /\ playlist_ids' = [playlist_ids EXCEPT ![pt] = id]
                    /\ frame' = [frame EXCEPT ![pt].new_playlist_id = id]
              /\ Called(pt, "get_playlist_by_name", TRUE)
              /\ Goto(pt, "l_store")
              /\ UNCHANGED <<ext, next_id>>
           \/ /\ existing = {}
              /\ ext' = create_playlist(ext, next_id, PlaylistName(pt))
              /\ next_id' = next_id + 1
              /\ playlist_ids' = [playlist_ids EXCEPT ![pt] = next_id]
              /\ frame' = [frame EXCEPT ![pt].new_playlist_id = next_id]
              /\ Called(pt, "create_playlist", TRUE)
              /\ Goto(pt, "l_store")
           \/ /\ StartFailed
              /\ UNCHANGED <<ext, next_id>>
    /\ Request(pt)
    /\ UNCHANGED <<sel, starts, faults, config, db_playlist_ids, db_runs, db_snapshots, clock, n_runs>>

\* self._store_playlist_id(playlist_type, playlist_id)
L_store(pt) ==
    /\ pc[pt] = "l_store"
    /\ \/ /\ db_playlist_ids' = _store_playlist_id(db_playlist_ids, pt, frame[pt].new_playlist_id)
          /\ Called(pt, "_store_playlist_id", TRUE)
          /\ Loaded(pt)
          /\ UNCHANGED <<playlist_ids, frame>>
       \/ /\ StartFailed
          /\ db_playlist_ids' = db_playlist_ids
    /\ UNCHANGED <<client, sel, starts, faults, config, db_runs, db_snapshots, ext, next_id, clock, n_runs>>

\* _load_or_create_playlists returns: the process is up
Started ==
    /\ \A pt \in PlaylistTypes : pc[pt] = "l_loaded"
    /\ pc' = [q \in PlaylistTypes |-> "idle"]
    /\ frame' = [q \in PlaylistTypes |-> InitFrame]
    /\ hist' = [q \in PlaylistTypes |-> InitHist]
    /\ client' = [client EXCEPT !.written_by = NoWriter, !.read_by = {}]
    /\ UNCHANGED <<sel, starts, faults, config, playlist_ids, db_playlist_ids, db_runs, db_snapshots,
                   ext, next_id, clock, n_runs>>

\* the process ends: what it held in memory is gone
Stop ==
    /\ AllIdle
    /\ starts < MaxStarts
    /\ pc' = [q \in PlaylistTypes |-> "down"]
    /\ playlist_ids' = NoPlaylistIds
    /\ UNCHANGED <<client, sel, starts, faults, config, db_playlist_ids, db_runs, db_snapshots, ext,
                   next_id, clock, n_runs, frame, hist>>

NextStart ==
    \/ Start
    \/ Started
    \/ Stop
    \/ \E pt \in PlaylistTypes :
          \/ L_stored_id(pt)
          \/ L_create(pt)
          \/ L_store(pt)
    \/ Next

\* before the first start: an empty database, an account without playlists
InitStart ==
    /\ config \in ConfigChoices
    /\ playlist_ids = NoPlaylistIds
    /\ db_playlist_ids = NoPlaylistIds
    /\ db_runs = [pt \in PlaylistTypes |-> <<>>]
    /\ db_snapshots = [pt \in PlaylistTypes |-> <<>>]
    /\ ext = <<>>
    /\ next_id = 1
    /\ clock = 1
    /\ n_runs = 0
    /\ faults = TRUE
    /\ starts = 0
    /\ client = NoClient
    /\ sel = NoCall
    /\ pc = [pt \in PlaylistTypes |-> "down"]
    /\ frame = [pt \in PlaylistTypes |-> InitFrame]
    /\ hist = [pt \in PlaylistTypes |-> InitHist]

SpecStart == InitStart /\ [][NextStart]_vars

-----------------------------------------------------------------------------
(* TrackSelector (app/track_selector.py): the filters as functions of      *)
(* their arguments.  A track record is a dict of the search API; a key     *)
(* that a dict lacks is the value NoKey, an empty artists list is <<>>.    *)

NoKey == 0

\* the value of 'genre' in a track record that has no such key
NoGenre == ""

Artist(id, name) == [id |-> id, name |-> name]

\* two artists of the same name and a third one
Artists == {Artist(1, "X"), Artist(2, "X"), Artist(3, "Y")}
ArtistIds == {a.id : a \in Artists}
ArtistNames == {a.name : a \in Artists} \cup {"Unknown"}

SelTrack(id, artists, genre, popularity, explicit) ==
    [id |-> id, artists |-> artists, genre |-> genre, popularity |-> popularity,
     score |-> popularity, explicit |-> explicit]

\* the track records the input lists are made of: well-formed tracks that
\* differ in id and primary artist, or in id, genre and popularity, explicit
\* tracks, a record without 'id' and a record with an empty artists list
SelTracks ==
    {SelTrack(id, <<a>>, "Pop", 60, FALSE) : id \in TrackIds, a \in Artists}
        \cup {SelTrack(id, <<Artist(1, "X")>>, g, p, FALSE) :
                 id \in TrackIds, g \in {"Pop", NoGenre}, p \in {40, 60}}
        \cup {SelTrack(id, <<Artist(1, "X")>>, "Pop", 60, TRUE) : id \in TrackIds}
        \cup {SelTrack(NoKey, <<Artist(1, "X")>>, "Pop", 60, FALSE),
              SelTrack(1, <<>>, "Pop", 60, FALSE)}

\* what a function call gives: a value, or an exception
Value(v) == [e |-> None, value |-> v]
Exception(e) == [e |-> e, value |-> <<>>]

\* the body of the loop of apply_artist_caps, run over the rest of the list
RECURSIVE apply_artist_caps_loop(_, _, _, _)
apply_artist_caps_loop(tracks, artist_cap, artist_counts, capped_tracks) ==
    IF tracks = <<>> THEN capped_tracks
    ELSE LET track == Head(tracks)
             artist_id == track.artists[1].id
         IN  IF artist_counts[artist_id] < artist_cap
             THEN apply_artist_caps_loop(Tail(tracks), artist_cap,
                      [artist_counts EXCEPT ![artist_id] = @ + 1],
                      Append(capped_tracks, track))
             ELSE apply_artist_caps_loop(Tail(tracks), artist_cap, artist_counts,
                                         capped_tracks)

\* track['artists'][0] of an empty list raises IndexError
apply_artist_caps(tracks, artist_cap) ==
    IF tracks = <<>> THEN Value(<<>>)
    ELSE IF \E i \in 1..Len(tracks) : tracks[i].artists = <<>> THEN Exception("IndexError")
    ELSE Value(apply_artist_caps_loop(tracks, artist_cap, [a \in ArtistIds |-> 0], <<>>))

\* track.get('artists', [{}])[0].get('name', 'Unknown')
ArtistName(track) ==
    IF track.artists[1].name = "" THEN "Unknown" ELSE track.artists[1].name

RECURSIVE _apply_artist_caps_loop(_, _, _, _)
_apply_artist_caps_loop(tracks, max_per_artist, artist_counts, capped_tracks) ==
    IF tracks = <<>> THEN capped_tracks
    ELSE LET track == Head(tracks)
             artist_name == ArtistName(track)
         IN  IF artist_counts[artist_name] < max_per_artist
             THEN _apply_artist_caps_loop(Tail(tracks), max_per_artist,
                      [artist_counts EXCEPT ![artist_name] = @ + 1],
                      Append(capped_tracks, track))
             ELSE _apply_artist_caps_loop(Tail(tracks), max_per_artist, artist_counts,
                                          capped_tracks)

_apply_artist_caps(tracks, max_per_artist) ==
    IF \E i \in 1..Len(tracks) : tracks[i].artists = <<>> THEN Exception("IndexError")
    ELSE Value(_apply_artist_caps_loop(tracks, max_per_artist,
                                       [a \in ArtistNames |-> 0], <<>>))

\* an entry of a playlist's contents as get_playlist_tracks returns it:
\* {'track': {'id': ...}}, {'track': None} or an entry without (a usable) 'track'
ExistingItem(has_track, id) == [has_track |-> has_track, id |-> id]
ExistingItems ==
    {ExistingItem(TRUE, id) : id \in TrackIds}
        \cup {ExistingItem(TRUE, NoKey), ExistingItem(FALSE, NoKey)}

\* existing_ids of dedupe_tracks
existing_ids(existing_tracks) ==
    {existing_tracks[i].id : i \in {j \in 1..Len(existing_tracks) :
                                       /\ existing_tracks[j].has_track
                                       /\ existing_tracks[j].id # NoKey}}

\* mutant of dedupe_tracks: with dedupe_days = 0 nothing is looked back at
dedupe_tracks_within_days(tracks, existing_tracks, dedupe_days) ==
    IF existing_tracks = <<>> \/ dedupe_days = 0 THEN Value(tracks)
    ELSE IF \E i \in 1..Len(tracks) : tracks[i].id = NoKey THEN Exception("KeyError")
    ELSE Value(SelectSeq(tracks, LAMBDA track : track.id \notin existing_ids(existing_tracks)))

\* track['id'] of a record without 'id' raises KeyError
dedupe_tracks(tracks, existing_tracks, dedupe_days) ==
    IF existing_tracks = <<>> THEN Value(tracks)
    ELSE IF \E i \in 1..Len(tracks) : tracks[i].id = NoKey THEN Exception("KeyError")
    ELSE Value(SelectSeq(tracks, LAMBDA track : track.id \notin existing_ids(existing_tracks)))

RECURSIVE _deduplicate_tracks_loop(_, _, _)
_deduplicate_tracks_loop(tracks, seen_ids, unique_tracks) ==
    IF tracks = <<>> THEN unique_tracks
    ELSE LET track == Head(tracks)
             track_id == track.id
         IN  IF track_id # NoKey /\ track_id \notin seen_ids
             THEN _deduplicate_tracks_loop(Tail(tracks), seen_ids \cup {track_id},
                                           Append(unique_tracks, track))
             ELSE _deduplicate_tracks_loop(Tail(tracks), seen_ids, unique_tracks)

\* mutant of _deduplicate_tracks: the last occurrence is kept, not the first
RECURSIVE _deduplicate_tracks_last(_)
_deduplicate_tracks_last(tracks) ==
    IF tracks = <<>> THEN <<>>
    ELSE LET track == Head(tracks)
             rest == _deduplicate_tracks_last(Tail(tracks))
         IN  IF track.id # NoKey /\ \A i \in 1..Len(rest) : rest[i].id # track.id
             THEN <<track>> \o rest
             ELSE rest

_deduplicate_tracks(tracks) == _deduplicate_tracks_loop(tracks, {}, <<>>)

\* the "Remove duplicates" loop of discover_tracks_for_period, run over the
\* rest of the discovered tracks
RECURSIVE discover_unique_tracks(_, _, _)
discover_unique_tracks(tracks, seen_ids, unique_tracks) ==
    IF tracks = <<>> THEN unique_tracks
    ELSE LET track == Head(tracks)
         IN  IF track.id \notin seen_ids
             THEN discover_unique_tracks(Tail(tracks), seen_ids \cup {track.id},
                                         Append(unique_tracks, track))
             ELSE discover_unique_tracks(Tail(tracks), seen_ids, unique_tracks)

\* discover_tracks_for_period from the tracks its _discover_* helper returned:
\* track['id'] of a record without 'id' raises KeyError; unique_tracks[:limit]
discover_tracks_for_period(tracks, limit) ==
    IF \E i \in 1..Len(tracks) : tracks[i].id = NoKey THEN Exception("KeyError")
    ELSE LET unique_tracks == discover_unique_tracks(tracks, {}, <<>>)
         IN  Value(SubSeq(unique_tracks, 1,
                          IF limit <= Len(unique_tracks) THEN limit ELSE Len(unique_tracks)))

Called_(op, tracks, existing_tracks, n, pct, result) ==
    [op |-> op, tracks |-> tracks, existing_tracks |-> existing_tracks, n |-> n,
     pct |-> pct, searches |-> <<>>, previous_snapshot |-> NoSnapshot,
     playlist_type |-> "general", out |-> result.value, e |-> result.e]

Call(op, tracks, existing_tracks, n, pct, result) ==
    sel' = Called_(op, tracks, existing_tracks, n, pct, result)

Rest == <<config, playlist_ids, db_playlist_ids, db_runs, db_snapshots, ext,
          next_id, clock, n_runs, faults, starts, client, pc, frame, hist>>

Call_apply_artist_caps ==
    /\ sel.op = "none"
    /\ \E artist_cap \in 0..MaxCap :
          Call("apply_artist_caps", sel.tracks, <<>>, artist_cap, 0,
               apply_artist_caps(sel.tracks, artist_cap))
    /\ UNCHANGED Rest

Call__apply_artist_caps ==
    /\ sel.op = "none"
    /\ \E max_per_artist \in 0..MaxCap :
          Call("_apply_artist_caps", sel.tracks, <<>>, max_per_artist, 0,
               _apply_artist_caps(sel.tracks, max_per_artist))
    /\ UNCHANGED Rest

Call_dedupe_tracks ==
    /\ sel.op = "none"
    /\ \E existing_tracks \in SeqsUpTo(ExistingItems, MaxExisting), dedupe_days \in {0, 7} :
          Call("dedupe_tracks", sel.tracks, existing_tracks, dedupe_days, 0,
               dedupe_tracks(sel.tracks, existing_tracks, dedupe_days))
    /\ UNCHANGED Rest

Call__deduplicate_tracks ==
    /\ sel.op = "none"
    /\ Call("_deduplicate_tracks", sel.tracks, <<>>, 0, 0, Value(_deduplicate_tracks(sel.tracks)))
    /\ UNCHANGED Rest

Call_discover_tracks_for_period ==
    /\ sel.op = "none"
    /\ \E limit \in 0..MaxTarget :
          Call("discover_tracks_for_period", sel.tracks, <<>>, limit, 0,
               discover_tracks_for_period(sel.tracks, limit))
    /\ UNCHANGED Rest

\* sorted(..., key=score, reverse=True): a stable sort, tracks of equal
\* score stay in their order
RECURSIVE InsertByScore(_, _)
InsertByScore(sorted, track) ==
    IF sorted = <<>> THEN <<track>>
    ELSE IF Head(sorted).score >= track.score
         THEN <<Head(sorted)>> \o InsertByScore(Tail(sorted), track)
         ELSE <<track>> \o sorted

RECURSIVE SortByScore(_)
SortByScore(tracks) ==
    IF tracks = <<>> THEN <<>>
    ELSE InsertByScore(SortByScore(SubSeq(tracks, 1, Len(tracks) - 1)), tracks[Len(tracks)])

\* track.get('genre', 'Other')
Genre(track) == IF track.genre = NoGenre THEN "Other" ELSE track.genre

\* the keys of genre_counts in insertion order: genres by first appearance
RECURSIVE GenreKeys(_, _)
GenreKeys(tracks, keys) ==
    IF tracks = <<>> THEN keys
    ELSE GenreKeys(Tail(tracks),
                   IF Genre(Head(tracks)) \in Range(keys) THEN keys
                   ELSE Append(keys, Genre(Head(tracks))))

\* genre_counts[genre]
GenreTracks(tracks, genre) == SelectSeq(tracks, LAMBDA track : Genre(track) = genre)

\* the concatenation, over the genres in order, of a part of each genre's list
RECURSIVE FromEachGenre(_, _, _, _)
FromEachGenre(tracks, genres, count, taken) ==
    IF genres = <<>> THEN <<>>
    ELSE LET genre_tracks == GenreTracks(tracks, Head(genres))
         IN  (IF taken THEN Prefix(genre_tracks, count) ELSE SubSeqFrom(genre_tracks, count + 1))
                 \o FromEachGenre(tracks, Tail(genres), count, taken)

Max(a, b) == IF a >= b THEN a ELSE b
Min(a, b) == IF a <= b THEN a ELSE b

\* the value diversity_floor_pct has when the argument is not given
NoPct == -1
\* the score of a record that has no 'score' key
NoScore == -1
FloorPcts == {NoPct, 0, 50, 100}

\* allocated_tracks of apply_genre_allocation before the final sort
allocated_tracks(tracks, target_size, diversity_floor_pct) ==
    LET genres == GenreKeys(tracks, <<>>)
    IN  IF diversity_floor_pct # NoPct /\ diversity_floor_pct # 0
        THEN LET floor_count == Max(1, (target_size * diversity_floor_pct) \div 100)
             IN  FromEachGenre(tracks, genres, floor_count, TRUE)
        ELSE IF Len(tracks) <= target_size
        THEN FromEachGenre(tracks, genres, Len(tracks), TRUE)
        ELSE LET tracks_per_genre == Max(1, target_size \div Len(genres))
                 first == FromEachGenre(tracks, genres, tracks_per_genre, TRUE)
             IN  IF Len(first) < target_size
                 THEN LET remaining_tracks ==
                              SortByScore(FromEachGenre(tracks, genres, tracks_per_genre, FALSE))
                          needed == target_size - Len(first)
                      IN  first \o Prefix(remaining_tracks, needed)
                 ELSE first

\* x['score'] of a record without 'score' raises KeyError
LacksScore(tracks) == \E i \in 1..Len(tracks) : tracks[i].score = NoScore

\* the lists apply_genre_allocation sorts by x['score']: remaining_tracks when
\* the even distribution is topped up, and allocated_tracks
sort_raises(tracks, target_size, diversity_floor_pct) ==
    LET genres == GenreKeys(tracks, <<>>)
        tracks_per_genre == Max(1, target_size \div Len(genres))
    IN  \/ LacksScore(allocated_tracks(tracks, target_size, diversity_floor_pct))
        \/ /\ diversity_floor_pct \in {NoPct, 0}
           /\ Len(tracks) > target_size
           /\ Len(FromEachGenre(tracks, genres, tracks_per_genre, TRUE)) < target_size
           /\ LacksScore(FromEachGenre(tracks, genres, tracks_per_genre, FALSE))

\* mutant of apply_genre_allocation: the sorted allocation is returned whole
apply_genre_allocation_untruncated(tracks, target_size, diversity_floor_pct) ==
    IF tracks = <<>> THEN Value(<<>>)
    ELSE Value(SortByScore(allocated_tracks(tracks, target_size, diversity_floor_pct)))

apply_genre_allocation(tracks, target_size, diversity_floor_pct) ==
    IF tracks = <<>> THEN Value(<<>>)
    ELSE IF sort_raises(tracks, target_size, diversity_floor_pct) THEN Exception("KeyError")
    ELSE Value(Prefix(SortByScore(allocated_tracks(tracks, target_size, diversity_floor_pct)),
                      target_size))

\* [track for track in tracks if track.get('popularity', 0) >= min_popularity]
_filter_tracks_by_popularity(tracks, min_popularity) ==
    SelectSeq(tracks, LAMBDA track : track.popularity >= min_popularity)

\* [track for track in tracks if not track.get('explicit', False)]
_filter_tracks_by_explicit(tracks, max_explicit) ==
    IF max_explicit THEN tracks ELSE SelectSeq(tracks, LAMBDA track : ~track.explicit)

\* track['score'] = track.get('popularity', 0); sorted by score, descending
_score_tracks(tracks) ==
    SortByScore([i \in 1..Len(tracks) |-> [tracks[i] EXCEPT !.score = tracks[i].popularity]])

\* the try block of select_tracks_for_playlist after the searches; found is
\* the list the searches gave, or the exception tracks.extend raised
SelectPipeline(found, artist_cap, target_size) ==
    IF found.e # None THEN found
    ELSE LET filtered == _filter_tracks_by_explicit(
                             _filter_tracks_by_popularity(found.value, 50), FALSE)
             capped == _apply_artist_caps(filtered, artist_cap)
         IN  IF capped.e # None THEN capped
             ELSE Value(Prefix(_score_tracks(_deduplicate_tracks(capped.value)), target_size))

\* mutant of select_tracks_for_playlist: an exception of a stage is not caught
select_tracks_for_playlist_uncaught(found, artist_cap, target_size) ==
    SelectPipeline(found, artist_cap, target_size)

\* except Exception as e: logger.error(...); return []
select_tracks_for_playlist(found, artist_cap, target_size) ==
    LET result == SelectPipeline(found, artist_cap, target_size)
    IN  IF result.e # None THEN Value(<<>>) ELSE result

\* what a search for one seeding artist can give: a list of tracks, an
\* exception (_search_tracks_by_artist then returns []), or no list at all
SearchOutcomes == {"found", "raised", "unusable"}

Call_apply_genre_allocation ==
    /\ sel.op = "none"
    /\ \E target_size \in 0..MaxTarget, diversity_floor_pct \in FloorPcts :
          Call("apply_genre_allocation", sel.tracks, <<>>, target_size, diversity_floor_pct,
               apply_genre_allocation(sel.tracks, target_size, diversity_floor_pct))
    /\ UNCHANGED Rest

\* two seeding artists; tracks.extend(artist_tracks) raises TypeError when
\* artist_tracks is no list
Call_select_tracks_for_playlist ==
    /\ sel.op = "none"
    /\ \E k \in 0..Len(sel.tracks), first \in SearchOutcomes, second \in SearchOutcomes,
          artist_cap \in 0..MaxCap, target_size \in 0..MaxTarget :
          LET tracks == (IF first = "found" THEN SubSeq(sel.tracks, 1, k) ELSE <<>>)
                           \o (IF second = "found" THEN SubSeqFrom(sel.tracks, k + 1) ELSE <<>>)
              found == IF "unusable" \in {first, second} THEN Exception("TypeError")
                       ELSE Value(tracks)
          IN  sel' = [Called_("select_tracks_for_playlist", tracks, <<>>, target_size,
                              artist_cap,
                              select_tracks_for_playlist(found, artist_cap, target_size))
                         EXCEPT !.searches = <<first, second>>]
    /\ UNCHANGED Rest

NextSelector ==
    \/ Call_apply_artist_caps
    \/ Call__apply_artist_caps
    \/ Call_dedupe_tracks
    \/ Call__deduplicate_tracks
    \/ Call_discover_tracks_for_period
    \/ Call_apply_genre_allocation
    \/ Call_select_tracks_for_playlist

\* a TrackSelector function is about to be called on some list of tracks
InitSelector ==
    /\ sel \in {[NoCall EXCEPT !.tracks = tracks] : tracks \in SeqsUpTo(SelTracks, MaxLen)}
    /\ config = ConfigWith(Missing)
    /\ playlist_ids = NoPlaylistIds
    /\ db_playlist_ids = NoPlaylistIds
    /\ db_runs = [pt \in PlaylistTypes |-> <<>>]
    /\ db_snapshots = [pt \in PlaylistTypes |-> <<>>]
    /\ ext = <<>>
    /\ next_id = 1
    /\ clock = 1
    /\ n_runs = 0
    /\ faults = FALSE
    /\ starts = 0
    /\ client = NoClient
    /\ pc = [pt \in PlaylistTypes |-> "down"]
    /\ frame = [pt \in PlaylistTypes |-> InitFrame]
    /\ hist = [pt \in PlaylistTypes |-> InitHist]

SpecSelector == InitSelector /\ [][NextSelector]_vars

-----------------------------------------------------------------------------
(* apply_genre_allocation on longer lists, tracks without 'score' among them *)

\* tracks of two genres and two scores, and one that carries no score
AllocTracks ==
    {SelTrack(id, <<Artist(1, "X")>>, g, p, FALSE) :
        id \in TrackIds, g \in {"Pop", NoGenre}, p \in {40, 60}}
        \cup {[SelTrack(1, <<Artist(1, "X")>>, "Pop", 60, FALSE) EXCEPT !.score = NoScore]}

NextAllocation == Call_apply_genre_allocation

InitAllocation ==
    /\ sel \in {[NoCall EXCEPT !.tracks = tracks] : tracks \in SeqsUpTo(AllocTracks, MaxAlloc)}
    /\ config = ConfigWith(Missing)
    /\ playlist_ids = NoPlaylistIds
    /\ db_playlist_ids = NoPlaylistIds
    /\ db_runs = [pt \in PlaylistTypes |-> <<>>]
    /\ db_snapshots = [pt \in PlaylistTypes |-> <<>>]
    /\ ext = <<>>
    /\ next_id = 1
    /\ clock = 1
    /\ n_runs = 0
    /\ faults = FALSE
    /\ starts = 0
    /\ client = NoClient
    /\ pc = [pt \in PlaylistTypes |-> "down"]
    /\ frame = [pt \in PlaylistTypes |-> InitFrame]
    /\ hist = [pt \in PlaylistTypes |-> InitHist]

SpecAllocation == InitAllocation /\ [][NextAllocation]_vars

-----------------------------------------------------------------------------
(* TrackSelector.calculate_track_scores. Scores are kept as integers: the   *)
(* score of the source times 10000, popularity in points of 0..100,         *)
(* weights and boosts in hundredths.                                        *)

\* the 'album' of a track: no such key, or the album's release_date: none,
\* a text that is no date, or a date so many days ago
NoAlbum == "no album"
NoDate == ""
BadDate == "not a date"
ReleasedToday == 0
ReleasedLongAgo == 400
Albums == {NoAlbum, NoDate, BadDate}
ReleaseDays == {ReleasedToday, ReleasedLongAgo}

\* the value of 'popularity' or 'score' in a record that has no such key
Absent == -1

ScTrack(id, popularity, album, days_old) ==
    [id |-> id, popularity |-> popularity, album |-> album, days_old |-> days_old,
     score |-> Absent]
Dated(id, popularity, days_old) == ScTrack(id, popularity, "dated", days_old)
Undated(id, popularity, album) == ScTrack(id, popularity, album, 0)

\* the candidates: dated tracks that differ in id, popularity and age, tracks
\* with incomplete album metadata, a track without 'popularity', one without 'id'
ScTracks ==
    {Dated(id, p, ReleasedToday) : id \in TrackIds, p \in {40, 60}}
        \cup {Dated(1, 60, ReleasedLongAgo), Dated(3, Absent, ReleasedToday),
              Dated(NoKey, 60, ReleasedToday)}
        \cup {Undated(1, 60, a) : a \in Albums}

\* the tracks of a snapshot: id and the popularity they had
PrevTrack(id, popularity) == [id |-> id, popularity |-> popularity]
PrevTracks == {PrevTrack(id, p) : id \in TrackIds, p \in {40, 60}}

\* track.get('popularity', 0)
Popularity(track) == IF track.popularity = Absent THEN 0 ELSE track.popularity

\* next((t for t in tracks_list if t.get('id') == track['id']), None)
RECURSIVE PrevOf(_, _)
PrevOf(tracks_list, id) ==
    IF tracks_list = <<>> THEN NoneValue
    ELSE IF Head(tracks_list).id = id THEN Some(Head(tracks_list))
    ELSE PrevOf(Tail(tracks_list), id)

\* popularity_delta: taken from the snapshot only if it is a dict
popularity_delta(track, previous_snapshot) ==
    IF previous_snapshot.type = "dict" /\ PrevOf(previous_snapshot.tracks, track.id).some
    THEN Popularity(track) - Popularity(PrevOf(previous_snapshot.tracks, track.id).value)
    ELSE 0

\* recency_boost by playlist_type and age; strptime raising is passed over
recency_boost(track, playlist_type) ==
    IF track.album # "dated" THEN 0
    ELSE IF playlist_type = "daily" /\ track.days_old <= 1 THEN 15
    ELSE IF playlist_type = "weekly" /\ track.days_old <= 7 THEN 12
    ELSE IF playlist_type = "monthly" /\ track.days_old <= 30 THEN 10
    ELSE IF playlist_type = "yearly" /\ track.days_old <= 365 THEN 8
    ELSE 0

\* weights after the period-specific changes
Weights(playlist_type) ==
    IF playlist_type = "daily" THEN [popularity |-> 50, popularity_delta |-> 30, recency_boost |-> 20]
    ELSE IF playlist_type = "weekly" THEN [popularity |-> 55, popularity_delta |-> 30, recency_boost |-> 15]
    ELSE IF playlist_type = "monthly" THEN [popularity |-> 55, popularity_delta |-> 30, recency_boost |-> 10]
    ELSE IF playlist_type = "yearly" THEN [popularity |-> 60, popularity_delta |-> 30, recency_boost |-> 8]
    ELSE [popularity |-> 55, popularity_delta |-> 30, recency_boost |-> 10]

Score(track, previous_snapshot, playlist_type) ==
    Weights(playlist_type).popularity * Popularity(track)
        + Weights(playlist_type).popularity_delta * popularity_delta(track, previous_snapshot)
        + Weights(playlist_type).recency_boost * recency_boost(track, playlist_type)
        + 250

\* the loop over tracks: track['id'] raises KeyError when the snapshot's
\* tracks are searched for a track without 'id', track['album'] when the
\* track has no 'album'
RECURSIVE calculate_track_scores_loop(_, _, _, _)
calculate_track_scores_loop(tracks, previous_snapshot, playlist_type, scored_tracks) ==
    IF tracks = <<>> THEN Value(scored_tracks)
    ELSE LET track == Head(tracks)
         IN  IF /\ previous_snapshot.type = "dict"
                /\ previous_snapshot.tracks # <<>>
                /\ track.id = NoKey
             THEN Exception("KeyError")
             ELSE IF track.album = NoAlbum THEN Exception("KeyError")
             ELSE calculate_track_scores_loop(Tail(tracks), previous_snapshot, playlist_type,
                      Append(scored_tracks,
                             [track EXCEPT !.score = Score(track, previous_snapshot, playlist_type)]))

\* mutant of calculate_track_scores: the scored tracks are not sorted
calculate_track_scores_unsorted(tracks, previous_snapshot, playlist_type) ==
    calculate_track_scores_loop(tracks, previous_snapshot, playlist_type, <<>>)

calculate_track_scores(tracks, previous_snapshot, playlist_type) ==
    LET scored == calculate_track_scores_loop(tracks, previous_snapshot, playlist_type, <<>>)
    IN  IF scored.e # None THEN scored ELSE Value(SortByScore(scored.value))

ScoredPlaylistTypes == {"general", "daily", "yearly"}

\* previous_snapshot as update_playlist has it: what _get_latest_snapshot
\* returned, None or the list json.loads gave
ReadBack(snapshot) ==
    IF snapshot.some THEN SnapshotList(snapshot.value) ELSE NoSnapshot

PreviousSnapshots ==
    {ReadBack(NoneValue)}
        \cup {ReadBack(Some(json_loads(json_dumps(tracks)))) : tracks \in SeqsUpTo(PrevTracks, MaxPrev)}
        \cup {SnapshotDict(tracks) : tracks \in SeqsUpTo(PrevTracks, MaxPrev)}

Call_calculate_track_scores ==
    /\ sel.op = "none"
    /\ \E previous_snapshot \in PreviousSnapshots, playlist_type \in ScoredPlaylistTypes :
          sel' = [Called_("calculate_track_scores", sel.tracks, <<>>, 0, 0,
                          calculate_track_scores(sel.tracks, previous_snapshot, playlist_type))
                     EXCEPT !.previous_snapshot = previous_snapshot,
                            !.playlist_type = playlist_type]
    /\ UNCHANGED Rest

NextScores == Call_calculate_track_scores

InitScores ==
    /\ sel \in {[NoCall EXCEPT !.tracks = tracks] : tracks \in SeqsUpTo(ScTracks, MaxLen)}
    /\ config = ConfigWith(Missing)
    /\ playlist_ids = NoPlaylistIds
    /\ db_playlist_ids = NoPlaylistIds
    /\ db_runs = [pt \in PlaylistTypes |-> <<>>]
    /\ db_snapshots = [pt \in PlaylistTypes |-> <<>>]
    /\ ext = <<>>
    /\ next_id = 1
    /\ clock = 1
    /\ n_runs = 0
    /\ faults = FALSE
    /\ starts = 0
    /\ client = NoClient
    /\ pc = [pt \in PlaylistTypes |-> "down"]
    /\ frame = [pt \in PlaylistTypes |-> InitFrame]
    /\ hist = [pt \in PlaylistTypes |-> InitHist]

SpecScores == InitScores /\ [][NextScores]_vars

-----------------------------------------------------------------------------
(* _get_latest_snapshot as a function of the rows of playlist_snapshots *)

\* tables of up to MaxRows rows per playlist_type, in insertion order, with
\* snapshot_date among SnapshotDates
SnapshotDates == 1..MaxDate
SnapshotLists == {<<>>, <<Track(1)>>, <<Track(2)>>}
SnapshotTables(pt) ==
    {[i \in 1..k |-> SnapshotRow(pt, dates[i], lists[i])] :
        <<k, dates, lists>> \in
            UNION {{<<n, d, l>> : d \in [1..n -> SnapshotDates], l \in [1..n -> SnapshotLists]} :
                      n \in 0..MaxRows}}

\* previous_snapshot = self._get_latest_snapshot(playlist_type)
Call__get_latest_snapshot(pt) ==
    /\ pc[pt] = "down"
    /\ \E snap \in _get_latest_snapshot(db_snapshots, pt) :
          frame' = [frame EXCEPT ![pt].previous_snapshot = snap]
    /\ Goto(pt, "looked_up")
    /\ UNCHANGED <<config, playlist_ids, db_playlist_ids, db_runs, db_snapshots, ext, next_id,
                   clock, n_runs, faults, starts, client, sel, hist>>

NextLookup == \E pt \in PlaylistTypes : Call__get_latest_snapshot(pt)

InitLookup ==
    /\ db_snapshots \in {[pt \in PlaylistTypes |->
                             IF pt = "daily" THEN d ELSE IF pt = "weekly" THEN w ELSE <<>>] :
                            d \in SnapshotTables("daily"), w \in SnapshotTables("weekly")}
    /\ sel = NoCall
    /\ config = ConfigWith(Missing)
    /\ playlist_ids = NoPlaylistIds
    /\ db_playlist_ids = NoPlaylistIds
    /\ db_runs = [pt \in PlaylistTypes |-> <<>>]
    /\ ext = <<>>
    /\ next_id = 1
    /\ clock = 1
    /\ n_runs = 0
    /\ faults = FALSE
    /\ starts = 0
    /\ client = NoClient
    /\ pc = [pt \in PlaylistTypes |-> "down"]
    /\ frame = [pt \in PlaylistTypes |-> InitFrame]
    /\ hist = [pt \in PlaylistTypes |-> InitHist]

SpecLookup == InitLookup /\ [][NextLookup]_vars

-----------------------------------------------------------------------------
(* Properties *)

IsPrefix(s, t) == Len(s) <= Len(t) /\ SubSeq(t, 1, Len(s)) = s
Last(s) == s[Len(s)]
Successes(runs) == SelectSeq(runs, LAMBDA r : r.success)
UrisOf(tracks) == MapSeq(tracks, LAMBDA t : t.uri)
IdsOf(tracks) == MapSeq(tracks, LAMBDA t : t.id)
MutatingCalls == {"replace_playlist_tracks", "add_tracks_to_playlist",
                  "remove_tracks_from_playlist"}
ServiceCalls == MutatingCalls \cup {"get_playlist_tracks", "get_playlist", "update_playlist",
                                    "create_playlist"}
UpdateDone(pt) == pc[pt] = "u_done" /\ hist[pt].kind = "update"
Appended(pt) == Len(db_runs[pt]) - Len(hist[pt].runs_before)

\* C1 (as stated): every update attempt, also one that ends early, has appended
\* exactly one RunRecord of its playlist_type when it ends, and the rows written
\* before it are untouched.
C1_OneRunRecordPerAttempt ==
    \A pt \in PlaylistTypes :
        UpdateDone(pt) =>
            /\ IsPrefix(hist[pt].runs_before, db_runs[pt])
            /\ Appended(pt) = 1

\* C1 (amended): an update attempt appends at most one RunRecord of its
\* playlist_type: exactly one, with success = true, when it succeeds, none when
\* it ends early (no mapped id, empty selection), and when it raises the one it
\* may have appended has success = false; the rows written before the
\* invocation stay as they were while it runs, and a rollover writes none.
C1_RunRecordsAppendOnly ==
    \A pt \in PlaylistTypes :
        /\ hist[pt].kind # "none" =>
              /\ IsPrefix(hist[pt].runs_before, db_runs[pt])
              /\ Appended(pt) <= 1
              /\ \A k \in 1..Len(db_runs[pt]) : db_runs[pt][k].playlist_type = pt
        /\ hist[pt].kind = "rollover" => Appended(pt) = 0
        /\ UpdateDone(pt) =>
              /\ frame[pt].result.kind = "returned" => Appended(pt) = 0
              /\ frame[pt].result = Success =>
                    Appended(pt) = 1 /\ Last(db_runs[pt]).success
              /\ (frame[pt].result.kind = "raised" /\ Appended(pt) = 1) =>
                    ~Last(db_runs[pt]).success

C1_Witness ==
    \E pt \in PlaylistTypes :
        /\ UpdateDone(pt)
        /\ frame[pt].result = Success
        /\ hist[pt].runs_before # <<>>
        /\ Appended(pt) = 1

\* C2: when a step after the playlist id was resolved raised, the invocation
\* ends with exactly one more RunRecord, success = false, tracks_count 0 and the
\* message of the exception, the caller gets that same exception, and nothing
\* was called after the failed call but the write of that RunRecord.
C2_FailureRecordedAndReraised ==
    \A pt \in PlaylistTypes :
        (UpdateDone(pt) /\ frame[pt].playlist_id # NoId /\ frame[pt].e # None) =>
            LET calls == hist[pt].calls
                n == Len(calls)
            IN  /\ Appended(pt) = 1
                /\ IsPrefix(hist[pt].runs_before, db_runs[pt])
                /\ Last(db_runs[pt]).success = FALSE
                /\ Last(db_runs[pt]).tracks_count = 0
                /\ Last(db_runs[pt]).error_message = Str(frame[pt].e)
                /\ Last(db_runs[pt]).playlist_type = pt
                /\ frame[pt].result = Raise(frame[pt].e)
                /\ n >= 2
                /\ calls[n] = <<"_log_run(failure)", TRUE>>
                /\ calls[n - 1][2] = FALSE
                /\ \A k \in 1..(n - 2) : calls[k][2] = TRUE

\* C3: a replace-logic update that raised has left the playlist's contents as
\* they were when the invocation started.
C3_FailedReplaceLeavesPlaylist ==
    \A pt \in PlaylistTypes :
        (/\ UpdateDone(pt)
         /\ frame[pt].result.kind = "raised"
         /\ frame[pt].playlist_id # NoId
         /\ IsReplace(config[pt].logic)) =>
            ext[frame[pt].playlist_id].tracks = hist[pt].tracks_before

\* C4: once the selection returned the empty list, the invocation has returned
\* normally, has made no mutating call on the playlist, the playlist holds what
\* it held before and no Snapshot row was added.
C4_EmptySelectionIsNoOp ==
    \A pt \in PlaylistTypes :
        hist[pt].selected = Some(<<>>) =>
            /\ pc[pt] = "u_done"
            /\ frame[pt].result = Returned
            /\ \A k \in 1..Len(hist[pt].calls) : hist[pt].calls[k][1] \notin MutatingCalls
            /\ ext[frame[pt].playlist_id].tracks = hist[pt].tracks_before
            /\ db_snapshots[pt] = hist[pt].snapshots_before

C4_Witness ==
    \E pt \in PlaylistTypes :
        /\ hist[pt].selected = Some(<<>>)
        /\ hist[pt].tracks_before # <<>>
        /\ pc[pt] = "u_done"

\* C5: an update for a playlist_type without a mapped id or without a
\* PlaylistConfig ends without raising, has called the service not once and has
\* written no Snapshot.
C5_ConfigErrorEndsQuietly ==
    \A pt \in PlaylistTypes :
        (UpdateDone(pt) /\ (config[pt] = Missing \/ playlist_ids[pt] = NoId)) =>
            /\ frame[pt].result.kind # "raised"
            /\ \A k \in 1..Len(hist[pt].calls) : hist[pt].calls[k][1] \notin ServiceCalls
            /\ db_snapshots[pt] = hist[pt].snapshots_before

\* C6: after a successful replace-logic update (previous_day, previous_week) the
\* playlist holds exactly the URIs of the selected tracks, in selection order.
C6_ReplaceYieldsSelected ==
    \A pt \in PlaylistTypes :
        (UpdateDone(pt) /\ frame[pt].result = Success /\ IsReplace(config[pt].logic)) =>
            ext[frame[pt].playlist_id].tracks = UrisOf(frame[pt].selected_tracks)

C6_Witness ==
    \E pt \in PlaylistTypes :
        /\ UpdateDone(pt)
        /\ frame[pt].result = Success
        /\ IsReplace(config[pt].logic)
        /\ hist[pt].tracks_before # <<>>
        /\ ext[frame[pt].playlist_id].tracks # hist[pt].tracks_before

\* C7: after a successful accumulate-logic update (month_to_date, year_to_date)
\* the playlist holds at most 'size' entries, and when the playlist re-fetched
\* after the append was longer than 'size', exactly the excess was removed and
\* 'size' entries remain.
C7_TrimRemovesExactlyTheExcess ==
    \A pt \in PlaylistTypes :
        (UpdateDone(pt) /\ frame[pt].result = Success /\ IsAccumulate(config[pt].logic)) =>
            LET now == Len(ext[frame[pt].playlist_id].tracks)
                fetched == Len(frame[pt].current_tracks)
            IN  /\ now <= config[pt].size
                /\ fetched > config[pt].size =>
                      /\ hist[pt].removed = fetched - config[pt].size
                      /\ now = config[pt].size

\* C8: between invocations every playlist_type has as many Snapshot rows as
\* RunRecords with success = true.
C8_SnapshotsMatchSuccessfulRuns ==
    AllIdle =>
        \A pt \in PlaylistTypes :
            Len(db_snapshots[pt]) = Len(Successes(db_runs[pt]))

C10_RolloverRemapsAndKeepsOld ==
    \A pt \in PlaylistTypes :
        (pc[pt] = "r_done" /\ frame[pt].result = Success) =>
            LET old == hist[pt].old_playlist_id
                new == frame[pt].new_playlist_id
            IN  /\ new # NoId
                /\ new # old
                /\ playlist_ids[pt] = new
                /\ db_playlist_ids[pt] = new
                /\ new \in DOMAIN ext
                /\ old \in DOMAIN ext
                /\ ext[old].tracks = hist[pt].tracks_before
                /\ config = hist[pt].config_before

C10_Witness ==
    \E pt \in PlaylistTypes :
        /\ pc[pt] = "r_done"
        /\ frame[pt].result = Success
        /\ hist[pt].tracks_before # <<>>
        /\ ext[hist[pt].old_playlist_id].name # frame[pt].current_name

RolloverDone(pt) == pc[pt] = "r_done" /\ hist[pt].kind = "rollover"
Succeeded(pt, op) == <<op, TRUE>> \in Range(hist[pt].calls)

\* C11: when a step of a rollover raised, the caller gets that exception, the
\* failed call is the last call the rollover made, and what the later steps
\* would have changed (the name, the new playlist, the stored mapping, the
\* seed contents) is as the steps before the failure left it.
C11_RolloverAbortsAtFailure ==
    \A pt \in PlaylistTypes :
        (RolloverDone(pt) /\ frame[pt].e # None) =>
            LET calls == hist[pt].calls
                n == Len(calls)
                old == hist[pt].old_playlist_id
                new == frame[pt].new_playlist_id
            IN  /\ frame[pt].result = Raise(frame[pt].e)
                /\ \A k \in 1..(n - 1) : calls[k][2] = TRUE
                /\ n >= 1 => calls[n][2] = FALSE
                /\ (n = 0) = (config[pt] = Missing)
                /\ (Succeeded(pt, "get_playlist") /\ ~Succeeded(pt, "update_playlist")) =>
                      ext[old].name = frame[pt].current_name
                /\ ~Succeeded(pt, "create_playlist") =>
                      new = NoId /\ playlist_ids[pt] = old
                /\ (new # NoId /\ ~Succeeded(pt, "_store_playlist_id")) =>
                      db_playlist_ids[pt] # new
                /\ (new # NoId /\ ~Succeeded(pt, "replace_playlist_tracks")) =>
                      ext[new].tracks = <<>>

C11_Witness ==
    \E pt \in PlaylistTypes :
        /\ RolloverDone(pt)
        /\ frame[pt].result.kind = "raised"
        /\ Succeeded(pt, "_store_playlist_id")
        /\ Last(hist[pt].calls) = <<"get_playlist_tracks", FALSE>>

\* what a sibling playlist contributes to the seed: nothing when its id is
\* unmapped, else its first n entries
SeedFrom(q, n) ==
    IF playlist_ids[q] = NoId THEN <<>> ELSE Prefix(ext[playlist_ids[q]].tracks, n)

\* C12: after a successful rollover of the monthly or the yearly playlist the
\* new playlist holds the first top_daily entries of the daily playlist followed
\* by the first top_weekly entries of the weekly playlist; the only write to
\* playlist contents is one replace_playlist_tracks, and none when the seed is
\* empty; an unmapped sibling is not read.
C12_SeedIsTopDailyThenTopWeekly ==
    \A pt \in {"monthly", "yearly"} :
        (RolloverDone(pt) /\ frame[pt].result = Success) =>
            LET seed == SeedFrom("daily", top_daily) \o SeedFrom("weekly", top_weekly)
                writes == SelectSeq(hist[pt].calls, LAMBDA c : c[1] \in MutatingCalls)
                reads == SelectSeq(hist[pt].calls, LAMBDA c : c[1] = "get_playlist_tracks")
            IN  /\ ext[frame[pt].new_playlist_id].tracks = seed
                /\ writes = IF seed = <<>> THEN <<>>
                            ELSE << <<"replace_playlist_tracks", TRUE>> >>
                /\ Len(reads) = Cardinality({q \in {"daily", "weekly"} : playlist_ids[q] # NoId})

C12_Witness ==
    \E pt \in {"monthly", "yearly"} :
        /\ RolloverDone(pt)
        /\ frame[pt].result = Success
        /\ playlist_ids["daily"] = NoId
        /\ ext[frame[pt].new_playlist_id].tracks # <<>>

ProcessUp(pt) == pc[pt] \notin {"down", "l_wait", "l_stored_id", "l_create", "l_store"}

\* C13: an inactive playlist type never has a mapping, in memory or stored; an
\* active type has one whenever the process is up; when a start has handled an
\* active type, the id in memory is the stored one: the id that was stored
\* before the start, reused without any call to the service, or else the id of
\* a playlist of the type's name, created only if there was none, and stored.
C13_OneIdPerActiveType ==
    \A pt \in PlaylistTypes :
        /\ ~IsActive(config, pt) =>
              playlist_ids[pt] = NoId /\ db_playlist_ids[pt] = NoId
        /\ (IsActive(config, pt) /\ ProcessUp(pt)) => playlist_ids[pt] # NoId
        /\ (IsActive(config, pt) /\ pc[pt] = "l_loaded") =>
              LET old == hist[pt].old_playlist_id
                  id == playlist_ids[pt]
                  named == get_playlist_by_name(ext, PlaylistName(pt))
              IN  /\ id \in DOMAIN ext
                  /\ db_playlist_ids[pt] = id
                  /\ old # NoId =>
                        /\ id = old
                        /\ hist[pt].calls = << <<"_get_stored_playlist_id", TRUE>> >>
                  /\ old = NoId =>
                        /\ id \in named
                        /\ Succeeded(pt, "create_playlist") => named = {id}
                        /\ Succeeded(pt, "create_playlist") # Succeeded(pt, "get_playlist_by_name")
                        /\ Succeeded(pt, "_store_playlist_id")

C13_Witness ==
    \E pt \in PlaylistTypes :
        /\ IsActive(config, pt)
        /\ pc[pt] = "l_loaded"
        /\ starts >= 2
        /\ hist[pt].old_playlist_id # NoId
        /\ ext[playlist_ids[pt]].name # PlaylistName(pt)

\* s can be obtained from t by deleting entries
RECURSIVE IsSubsequence(_, _)
IsSubsequence(s, t) ==
    IF s = <<>> THEN TRUE
    ELSE IF t = <<>> THEN FALSE
    ELSE IF Head(s) = Head(t) THEN IsSubsequence(Tail(s), Tail(t))
    ELSE IsSubsequence(s, Tail(t))

HavePrimaryArtist(tracks) == \A i \in 1..Len(tracks) : tracks[i].artists # <<>>
OfArtist(tracks, artist_id) ==
    SelectSeq(tracks, LAMBDA track : track.artists[1].id = artist_id)
OfArtistName(tracks, name) ==
    SelectSeq(tracks, LAMBDA track : ArtistName(track) = name)

\* C14: called with cap k on a list of tracks that all have a primary artist,
\* either artist-cap filter returns a subsequence of its input that holds, for
\* every artist, exactly that artist's first min(k, count) tracks of the input
\* (so no artist more than k times).
C14_ArtistCapKeepsFirstK ==
    (sel.op \in {"apply_artist_caps", "_apply_artist_caps"} /\ HavePrimaryArtist(sel.tracks)) =>
        /\ sel.e = None
        /\ IsSubsequence(sel.out, sel.tracks)
        /\ \A a \in ArtistIds :
              /\ Len(OfArtist(sel.out, a)) <= sel.n
              /\ OfArtist(sel.out, a) = Prefix(OfArtist(sel.tracks, a), sel.n)

\* what does hold of both filters: a subsequence with no artist more than k
\* times; apply_artist_caps keeps each artist's first min(k, count) tracks,
\* _apply_artist_caps the first min(k, count) tracks of each artist name
ArtistCapPerKey ==
    (sel.op \in {"apply_artist_caps", "_apply_artist_caps"} /\ HavePrimaryArtist(sel.tracks)) =>
        /\ sel.e = None
        /\ IsSubsequence(sel.out, sel.tracks)
        /\ \A a \in ArtistIds : Len(OfArtist(sel.out, a)) <= sel.n
        /\ sel.op = "apply_artist_caps" =>
              \A a \in ArtistIds :
                  OfArtist(sel.out, a) = Prefix(OfArtist(sel.tracks, a), sel.n)
        /\ sel.op = "_apply_artist_caps" =>
              \A name \in ArtistNames :
                  OfArtistName(sel.out, name) = Prefix(OfArtistName(sel.tracks, name), sel.n)

HaveIds(tracks) == \A i \in 1..Len(tracks) : tracks[i].id # NoKey

\* the identifiers of the entries of a playlist's contents that carry one
Identifiers(existing_tracks) ==
    {item.id : item \in {it \in Range(existing_tracks) : it.has_track}} \ {NoKey}

\* C15: called on candidates that all have an identifier, dedupe_tracks
\* returns exactly the candidates whose identifier is not among the identifiers
\* of the existing contents, in input order, whatever dedupe_days is.
C15_DedupeAgainstExisting ==
    (sel.op = "dedupe_tracks" /\ HaveIds(sel.tracks)) =>
        LET kept == SelectSeq(sel.tracks,
                        LAMBDA track : track.id \notin Identifiers(sel.existing_tracks))
        IN  /\ sel.e = None
            /\ sel.out = kept
            /\ \A dedupe_days \in {0, 7} :
                  dedupe_tracks(sel.tracks, sel.existing_tracks, dedupe_days) = Value(kept)

C15_Witness ==
    /\ sel.op = "dedupe_tracks"
    /\ HaveIds(sel.tracks)
    /\ sel.n = 0
    /\ ExistingItem(FALSE, NoKey) \in Range(sel.existing_tracks)
    /\ sel.out # <<>>
    /\ Len(sel.out) < Len(sel.tracks)

\* the position of the first track of the list that carries the identifier
FirstWith(tracks, id) ==
    CHOOSE i \in 1..Len(tracks) :
        /\ tracks[i].id = id
        /\ \A j \in 1..(i - 1) : tracks[j].id # id

\* C16: the output of _deduplicate_tracks has pairwise distinct identifiers,
\* is a subsequence of the input, holds for every identifier of the input the
\* first input track that carries it and nothing else, and is left unchanged by
\* a second application of the filter.
C16_SelfDedupKeepsFirstAndIsIdempotent ==
    sel.op = "_deduplicate_tracks" =>
        LET ids == {sel.tracks[i].id : i \in 1..Len(sel.tracks)} \ {NoKey}
        IN  /\ sel.e = None
            /\ \A i, j \in 1..Len(sel.out) : sel.out[i].id = sel.out[j].id => i = j
            /\ IsSubsequence(sel.out, sel.tracks)
            /\ {sel.out[i].id : i \in 1..Len(sel.out)} = ids
            /\ \A id \in ids : sel.tracks[FirstWith(sel.tracks, id)] \in Range(sel.out)
            /\ _deduplicate_tracks(sel.out) = sel.out
            /\ _deduplicate_tracks(_deduplicate_tracks(sel.tracks)) = _deduplicate_tracks(sel.tracks)

C16_Witness ==
    /\ sel.op = "_deduplicate_tracks"
    /\ Len(sel.tracks) = 3
    /\ Len(sel.out) = 2
    /\ sel.tracks[1].id = sel.tracks[3].id
    /\ sel.tracks[1] # sel.tracks[3]
    /\ sel.out[1] = sel.tracks[1]

Count(tracks, track) == Cardinality({i \in 1..Len(tracks) : tracks[i] = track})
ScoreDescending(tracks) ==
    \A i, j \in 1..Len(tracks) : i < j => tracks[i].score >= tracks[j].score

\* C17: the output of apply_genre_allocation is no longer than target_size,
\* holds no track more often than the input does, and is in descending order
\* of score, for every floor percentage and without one.
C17_AllocationBoundedFromInputSorted ==
    sel.op = "apply_genre_allocation" =>
        /\ sel.e = None
        /\ Len(sel.out) <= sel.n
        /\ \A track \in Range(sel.out) : Count(sel.out, track) <= Count(sel.tracks, track)
        /\ ScoreDescending(sel.out)

C17_Witness ==
    /\ sel.op = "apply_genre_allocation"
    /\ sel.pct = 50
    /\ Len(sel.tracks) = 3
    /\ Len(sel.out) = sel.n
    /\ sel.n = 1
    /\ Len(GenreKeys(sel.tracks, <<>>)) = 2
    /\ sel.out[1] # sel.tracks[1]

Filtered(tracks) ==
    _filter_tracks_by_explicit(_filter_tracks_by_popularity(tracks, 50), FALSE)

AloneContents(logic_type, size, before, uris) ==
    IF IsReplace(logic_type) THEN uris
    ELSE LET added == before \o uris
         IN  IF IsAccumulate(logic_type) /\ Len(added) > size
             THEN SelectSeq(added, LAMBDA u : u \notin Range(SubSeqFrom(added, size + 1)))
             ELSE added

\* a finished update invocation finds its playlist, its Snapshot rows and its
\* RunRecords as an invocation running alone from the same start leaves them
AsIfAlone(pt) ==
    UpdateDone(pt) =>
        LET before == hist[pt].tracks_before
            id == frame[pt].playlist_id
        IN  /\ frame[pt].result = Success =>
                  LET selected == hist[pt].selected.value
                  IN  /\ ext[id].tracks = AloneContents(config[pt].logic, config[pt].size,
                                                        before, UrisOf(selected))
                      /\ Len(db_snapshots[pt]) = Len(hist[pt].snapshots_before) + 1
                      /\ IsPrefix(hist[pt].snapshots_before, db_snapshots[pt])
                      /\ json_loads(Last(db_snapshots[pt]).tracks_data) = selected
                      /\ Len(db_runs[pt]) = Len(hist[pt].runs_before) + 1
                      /\ IsPrefix(hist[pt].runs_before, db_runs[pt])
                      /\ Last(db_runs[pt]).success
                      /\ Last(db_runs[pt]).tracks_count = Len(selected)
            /\ frame[pt].result = Returned =>
                  /\ id # NoId => ext[id].tracks = before
                  /\ db_snapshots[pt] = hist[pt].snapshots_before
                  /\ db_runs[pt] = hist[pt].runs_before

\* a step that is not a step of the invocation of pt leaves the playlist, the
\* Snapshot rows, the RunRecords, the mapping entries and the locals of pt alone
NoCrossWrite ==
    \A pt \in PlaylistTypes :
        (pc'[pt] = pc[pt] /\ hist'[pt] = hist[pt]) =>
            /\ frame'[pt] = frame[pt]
            /\ db_runs'[pt] = db_runs[pt]
            /\ db_snapshots'[pt] = db_snapshots[pt]
            /\ db_playlist_ids'[pt] = db_playlist_ids[pt]
            /\ playlist_ids'[pt] = playlist_ids[pt]
            /\ playlist_ids[pt] # NoId => ext'[playlist_ids[pt]] = ext[playlist_ids[pt]]

C20_TrimEvictsOldestByPosition ==
    \A pt \in PlaylistTypes :
        (/\ UpdateDone(pt) /\ frame[pt].result = Success
         /\ IsAccumulate(config[pt].logic)
         /\ Len(frame[pt].current_tracks) > config[pt].size) =>
            LET fetched == MapSeq(frame[pt].current_tracks, LAMBDA t : t.track.uri)
                size == config[pt].size
                old == Len(hist[pt].tracks_before)
            IN  /\ ext[frame[pt].playlist_id].tracks = Prefix(fetched, size)
                /\ ~ \E i \in 1..size, j \in (size + 1)..Len(fetched) : i <= old /\ j > old

\* the step of update_playlist the i-th call of an invocation belongs to:
\* 1 read latest Snapshot, 2 fetch existing contents, 3 select, 4 publish,
\* 5 snapshot, 6 log, 7 the except clause
StepOf(calls, i) ==
    LET op == calls[i][1]
        selected == \E k \in 1..(i - 1) : calls[k][1] = "select_tracks_for_playlist"
    IN  IF op = "_get_latest_snapshot" THEN 1
        ELSE IF op = "get_playlist_tracks" THEN (IF selected THEN 4 ELSE 2)
        ELSE IF op = "select_tracks_for_playlist" THEN 3
        ELSE IF op \in MutatingCalls THEN 4
        ELSE IF op \in {"_save_snapshot", "snapshot_files"} THEN 5
        ELSE IF op = "_log_run(success)" THEN 6
        ELSE 7

\* C21: the calls of an update invocation come in the order read latest
\* Snapshot, fetch existing contents, select, publish, snapshot, log, none
\* after a call that raised but the except clause; the Snapshot row is written
\* after every mutation of the playlist, the successful RunRecord after the
\* Snapshot, and every RunRecord with success = true has an earlier Snapshot
\* row of its playlist_type with the same number of tracks.
C21_StepsInOrderSnapshotBeforeLog ==
    \A pt \in PlaylistTypes :
        /\ hist[pt].kind = "update" =>
              LET calls == hist[pt].calls
              IN  /\ \A i \in 1..Len(calls) :
                        /\ i <= 3 => StepOf(calls, i) \in {i, 7}
                        /\ \A j \in (i + 1)..Len(calls) :
                              /\ StepOf(calls, i) <= StepOf(calls, j)
                              /\ ~calls[i][2] => StepOf(calls, j) = 7
                  /\ <<"_log_run(success)", TRUE>> \in Range(calls) =>
                        /\ <<"_save_snapshot", TRUE>> \in Range(calls)
                        /\ Len(db_snapshots[pt]) = Len(hist[pt].snapshots_before) + 1
                        /\ Len(json_loads(Last(db_snapshots[pt]).tracks_data))
                              = Last(db_runs[pt]).tracks_count
        /\ \A k \in 1..Len(db_runs[pt]) :
              db_runs[pt][k].success =>
                  \E n \in 1..Len(db_snapshots[pt]) :
                      /\ db_snapshots[pt][n].snapshot_date < db_runs[pt][k].run_timestamp
                      /\ Len(json_loads(db_snapshots[pt][n].tracks_data))
                            = db_runs[pt][k].tracks_count

C21_Witness ==
    \E pt \in PlaylistTypes :
        /\ UpdateDone(pt) /\ frame[pt].result = Success
        /\ IsAccumulate(config[pt].logic)
        /\ <<"remove_tracks_from_playlist", TRUE>> \in Range(hist[pt].calls)
        /\ Len(hist[pt].calls) = 10
        /\ Last(db_runs[pt]).tracks_count = 2

\* the row of greatest snapshot_date, the one inserted last among equals
LatestInsertedLast(rows) ==
    rows[CHOOSE i \in 1..Len(rows) :
            /\ \A j \in 1..Len(rows) : rows[j].snapshot_date <= rows[i].snapshot_date
            /\ \A j \in (i + 1)..Len(rows) : rows[j].snapshot_date < rows[i].snapshot_date]

\* C22: the latest-snapshot lookup returns None when the playlist_type has no
\* Snapshot and otherwise the Snapshot of that type with the greatest
\* timestamp, the one inserted last when several share the greatest timestamp.
C22_LatestSnapshotTieBreak ==
    \A pt \in PlaylistTypes :
        pc[pt] = "looked_up" =>
            IF db_snapshots[pt] = <<>> THEN frame[pt].previous_snapshot = NoneValue
            ELSE frame[pt].previous_snapshot =
                     Some(json_loads(LatestInsertedLast(db_snapshots[pt]).tracks_data))

\* what does hold: the lookup returns a Snapshot of the type with the greatest timestamp
LatestSnapshotIsAGreatest ==
    \A pt \in PlaylistTypes :
        pc[pt] = "looked_up" =>
            IF db_snapshots[pt] = <<>> THEN frame[pt].previous_snapshot = NoneValue
            ELSE \E i \in 1..Len(db_snapshots[pt]) :
                    /\ \A j \in 1..Len(db_snapshots[pt]) :
                          db_snapshots[pt][j].snapshot_date <= db_snapshots[pt][i].snapshot_date
                    /\ frame[pt].previous_snapshot =
                          Some(json_loads(db_snapshots[pt][i].tracks_data))

Scored == sel.op = "calculate_track_scores"

\* the popularity-delta of a candidate against the tracks of a Snapshot
DeltaAgainst(track, snapshot_tracks) ==
    IF PrevOf(snapshot_tracks, track.id).some
    THEN Popularity(track) - Popularity(PrevOf(snapshot_tracks, track.id).value)
    ELSE 0

ScoreWithDelta(track, delta, playlist_type) ==
    Weights(playlist_type).popularity * Popularity(track)
        + Weights(playlist_type).popularity_delta * delta
        + Weights(playlist_type).recency_boost * recency_boost(track, playlist_type)
        + 250

\* C23: when calculate_track_scores is given the Snapshot the update read
\* back from the store (or None when there is none), a candidate whose id
\* occurs in the Snapshot is scored with popularity-delta = its popularity
\* minus the Snapshot's, and any other candidate with popularity-delta 0.
C23_ReadBackSnapshotGivesDelta ==
    (Scored /\ sel.e = None /\ sel.previous_snapshot.type \in {"NoneType", "list"}) =>
        \A i \in 1..Len(sel.out) :
            sel.out[i].score =
                ScoreWithDelta(sel.out[i], DeltaAgainst(sel.out[i], sel.previous_snapshot.tracks),
                               sel.playlist_type)

\* what does hold: the delta is computed from a previous_snapshot that is a
\* dict with the key 'tracks', and is 0 for every other previous_snapshot
DeltaOnlyFromDict ==
    (Scored /\ sel.e = None) =>
        \A i \in 1..Len(sel.out) :
            sel.out[i].score =
                ScoreWithDelta(sel.out[i],
                               IF sel.previous_snapshot.type = "dict"
                               THEN DeltaAgainst(sel.out[i], sel.previous_snapshot.tracks)
                               ELSE 0,
                               sel.playlist_type)

Unscored(track) == [track EXCEPT !.score = Absent]
Bijections(n) == {f \in [1..n -> 1..n] : \A i, j \in 1..n : f[i] = f[j] => i = j}

\* C24: calculate_track_scores returns every input track exactly once, by
\* score descending, tracks of equal score in their input order.
C24_ScoresSortedStable ==
    (Scored /\ sel.e = None) =>
        /\ Len(sel.out) = Len(sel.tracks)
        /\ \E f \in Bijections(Len(sel.tracks)) :
              \A i \in 1..Len(sel.out) :
                  /\ Unscored(sel.out[i]) = Unscored(sel.tracks[f[i]])
                  /\ \A j \in (i + 1)..Len(sel.out) :
                        /\ sel.out[i].score >= sel.out[j].score
                        /\ sel.out[i].score = sel.out[j].score => f[i] < f[j]

C24_Witness ==
    /\ Scored /\ sel.e = None
    /\ Len(sel.tracks) = 3
    /\ sel.out[1] # sel.out[2] /\ sel.out[1].score = sel.out[2].score
    /\ Unscored(sel.out[1]) = sel.tracks[1]
    /\ Unscored(sel.out[2]) = sel.tracks[3]
    /\ sel.out[3].score < sel.out[2].score

Incomplete(track) == track.album \in Albums

\* C25: calculate_track_scores does not abort on a track with no album
\* metadata, no release date or an unparsable release date: the track is
\* scored with recency component 0 and returned, and so are the other tracks.
C25_IncompleteMetadataScored ==
    (Scored /\ (sel.previous_snapshot.type = "dict" => \A i \in 1..Len(sel.tracks) :
                                                           sel.tracks[i].id # NoKey)) =>
        /\ sel.e = None
        /\ Len(sel.out) = Len(sel.tracks)
        /\ \A i \in 1..Len(sel.out) :
              Incomplete(sel.out[i]) =>
                  sel.out[i].score =
                      Weights(sel.playlist_type).popularity * Popularity(sel.out[i])
                          + Weights(sel.playlist_type).popularity_delta
                                * popularity_delta(sel.out[i], sel.previous_snapshot)
                          + 250

\* what does hold: a track whose album has no release date or one that is
\* no date is scored with recency component 0; only a missing 'album' raises
UndatedScoredWithoutRecency ==
    (Scored /\ (\A i \in 1..Len(sel.tracks) : sel.tracks[i].album # NoAlbum)
            /\ (sel.previous_snapshot.type = "dict" => \A i \in 1..Len(sel.tracks) :
                                                           sel.tracks[i].id # NoKey)) =>
        /\ sel.e = None
        /\ Len(sel.out) = Len(sel.tracks)
        /\ \A i \in 1..Len(sel.out) :
              Incomplete(sel.out[i]) => recency_boost(sel.out[i], sel.playlist_type) = 0

DedupStages == {"discover_tracks_for_period", "dedupe_tracks", "_deduplicate_tracks"}
HasTrackWithoutId(tracks) == \E i \in 1..Len(tracks) : tracks[i].id = NoKey

\* C26: every dedup stage (the self-dedup of discover_tracks_for_period,
\* dedupe_tracks, _deduplicate_tracks) completes without raising on a list
\* that contains a track without an id, and its output excludes that track.
C26_DedupToleratesMissingId ==
    (sel.op \in DedupStages /\ HasTrackWithoutId(sel.tracks)) =>
        /\ sel.e = None
        /\ ~HasTrackWithoutId(sel.out)

\* what does hold: _deduplicate_tracks, which reads track.get('id'), never
\* raises and drops the tracks without an id
DeduplicateSkipsMissingId ==
    sel.op = "_deduplicate_tracks" => sel.e = None /\ ~HasTrackWithoutId(sel.out)

Allocated == sel.op = "apply_genre_allocation" /\ sel.tracks # <<>>

\* the score a track is ordered by when one without a score counts as 0
ZeroScored(tracks) ==
    [i \in 1..Len(tracks) |->
        IF tracks[i].score = NoScore THEN [tracks[i] EXCEPT !.score = 0] ELSE tracks[i]]

\* the first min(count, bucket size) tracks of every bucket, in bucket order
FirstOfEachBucket(tracks, count) ==
    LET genres == GenreKeys(tracks, <<>>)
        part[k \in 0..Len(genres)] ==
            IF k = 0 THEN <<>>
            ELSE part[k - 1] \o Prefix(GenreTracks(tracks, genres[k]), count)
    IN  part[Len(genres)]

LeftOfEachBucket(tracks, count) ==
    LET genres == GenreKeys(tracks, <<>>)
        part[k \in 0..Len(genres)] ==
            IF k = 0 THEN <<>>
            ELSE part[k - 1] \o SubSeqFrom(GenreTracks(tracks, genres[k]), count + 1)
    IN  part[Len(genres)]

\* the even distribution: all tracks when there are at most target_size,
\* else per_genre from each bucket, topped up with the best of the rest
EvenDistribution(tracks, target_size) ==
    IF Len(tracks) <= target_size THEN FirstOfEachBucket(tracks, Len(tracks))
    ELSE LET per_genre == Max(1, target_size \div Len(GenreKeys(tracks, <<>>)))
             taken == FirstOfEachBucket(tracks, per_genre)
         IN  IF Len(taken) < target_size
             THEN taken \o Prefix(SortByScore(LeftOfEachBucket(tracks, per_genre)),
                                  target_size - Len(taken))
             ELSE taken

\* C27: without a diversity floor apply_genre_allocation returns, sorted by
\* score and cut to target_size, all tracks when there are at most
\* target_size, else the first per_genre = max(1, target_size // buckets) of
\* each bucket topped up to target_size with the highest-scoring leftovers;
\* a track without a score is ordered as score 0 and raises no error.
C27_EvenDistribution ==
    (Allocated /\ sel.pct = NoPct) =>
        /\ sel.e = None
        /\ ZeroScored(sel.out)
               = Prefix(SortByScore(EvenDistribution(ZeroScored(sel.tracks), sel.n)), sel.n)

\* what does hold: the even distribution of tracks that all carry a score
EvenDistributionOfScored ==
    (Allocated /\ sel.pct = NoPct /\ ~LacksScore(sel.tracks)) =>
        /\ sel.e = None
        /\ sel.out = Prefix(SortByScore(EvenDistribution(sel.tracks, sel.n)), sel.n)

\* the even distribution is topped up: a bucket holds fewer than per_genre
ToppedUp ==
    /\ Allocated /\ sel.pct = NoPct /\ sel.e = None
    /\ Len(sel.tracks) > sel.n
    /\ Len(FirstOfEachBucket(sel.tracks,
                             Max(1, sel.n \div Len(GenreKeys(sel.tracks, <<>>))))) < sel.n
    /\ Len(sel.out) = sel.n

\* C28: with a diversity floor percentage given, 0 and 100 included, the
\* allocation before the final sort consists of the first
\* min(floor_count, bucket size) tracks of each bucket, in bucket order, where
\* floor_count = max(1, target_size * floor_pct / 100), and no error is raised
\* for a bucket shorter than floor_count.
C28_FloorAllocation ==
    (Allocated /\ sel.pct # NoPct /\ ~LacksScore(sel.tracks)) =>
        /\ sel.e = None
        /\ allocated_tracks(sel.tracks, sel.n, sel.pct)
               = FirstOfEachBucket(sel.tracks, Max(1, (sel.n * sel.pct) \div 100))
        /\ sel.out = Prefix(SortByScore(FirstOfEachBucket(sel.tracks,
                                            Max(1, (sel.n * sel.pct) \div 100))), sel.n)

\* what does hold: the floor allocation for a percentage other than 0
FloorAllocationOfNonZero ==
    (Allocated /\ sel.pct \notin {NoPct, 0} /\ ~LacksScore(sel.tracks)) =>
        /\ sel.e = None
        /\ allocated_tracks(sel.tracks, sel.n, sel.pct)
               = FirstOfEachBucket(sel.tracks, Max(1, (sel.n * sel.pct) \div 100))

\* C29: whatever rollovers have run, failed ones that were run again
\* included, the name of every external playlist contains the final suffix
\* at most once.
C29_FinalSuffixAtMostOnce ==
    \A id \in DOMAIN ext : Count(ext[id].name, final_suffix) <= 1

\* the position from which a rollover reads the playlist of pt
SeedsFrom(pt) == IF pt = "daily" THEN "r_seed_daily" ELSE "r_seed_weekly"

\* an update of pt with replace logic is running and a rollover is about to
\* read the playlist of pt
ReadDuringReplace(pt) ==
    /\ hist[pt].kind = "update"
    /\ frame[pt].playlist_id # NoId
    /\ frame[pt].playlist_id = playlist_ids[pt]
    /\ IsReplace(config[pt].logic)
    /\ \E r \in SeededTypes : pc[r] = SeedsFrom(pt)

\* C30: whenever a rollover reads the daily or weekly playlist while a
\* replace-logic update of it is running, the playlist holds the complete
\* contents it had before the update or the complete new selection, never
\* an emptied or partly filled playlist.
C30_ReplaceAtomicToReaders ==
    \A pt \in ReplacedTypes :
        ReadDuringReplace(pt) =>
            \/ ext[playlist_ids[pt]].tracks = hist[pt].tracks_before
            \/ /\ hist[pt].selected.some
               /\ ext[playlist_ids[pt]].tracks = UrisOf(hist[pt].selected.value)

\* what does hold: the playlist read during a replace-logic update holds the
\* contents from before, nothing, or a prefix of the new selection
ReplaceSeenInParts ==
    \A pt \in ReplacedTypes :
        ReadDuringReplace(pt) =>
            \/ ext[playlist_ids[pt]].tracks = hist[pt].tracks_before
            \/ /\ hist[pt].selected.some
               /\ \E k \in 0..Len(hist[pt].selected.value) :
                     ext[playlist_ids[pt]].tracks = Prefix(UrisOf(hist[pt].selected.value), k)

====
